---- MODULE Spec2Model ----
(***************************************************************************)
(* Model of the paper_backend reporting API: the input validators, the     *)
(* assembly filter, the surname/caste/category aggregation controllers,    *)
(* the election-results controllers and the express routers in front of    *)
(* them.  JavaScript strings are sequences of one-character strings.       *)
(***************************************************************************)
EXTENDS Integers, Sequences, FiniteSets, TLC

VARIABLES
    tbl_all_surname,      \* rows of the surname table (a sequence; id = position)
    assembly_vandan,      \* rows of the assembly table used by the surname controller
    election_results_col, \* rows of the election-result table
    party_position,       \* [AC |-> rows of tbl_result_party_position, PE |-> rows of ..._pe]
    req,                  \* the request (or validator call) being answered
    res,                  \* the response sent (or the validator's result)
    called,               \* the middleware and controllers that ran for req, in order
    queries               \* the data-store queries issued for req, in order

vars == <<tbl_all_surname, assembly_vandan, election_results_col, party_position,
          req, res, called, queries>>

tables == <<tbl_all_surname, assembly_vandan, election_results_col, party_position>>

(***************************************************************************)
(* Bounds of the model.                                                    *)
(***************************************************************************)
MaxLen == 3        \* longest enumerated assembly_id string
MaxPagLen == 2     \* longest enumerated page / limit string
MaxTextLen == 2    \* longest enumerated free-text string

(***************************************************************************)
(* JavaScript values and the built-ins the controllers use.                *)
(***************************************************************************)
Undefined == [t |-> "undefined"]
JStr(s) == [t |-> "string", s |-> s]
JNum(n) == [t |-> "number", n |-> n]
JArr(a) == [t |-> "array", a |-> a]

NaN == [nan |-> TRUE, n |-> 0]
Int32(n) == [nan |-> FALSE, n |-> n]

Digits == <<"0", "1", "2", "3", "4", "5", "6", "7", "8", "9">>

IsDigit(c) == \E i \in 1..10 : Digits[i] = c

DigitVal(c) == (CHOOSE i \in 1..10 : Digits[i] = c) - 1

IsSpace(c) == c = " "

UpperLetters ==
    <<"A", "B", "C", "D", "E", "F", "G", "H", "I", "J", "K", "L", "M",
      "N", "O", "P", "Q", "R", "S", "T", "U", "V", "W", "X", "Y", "Z">>

LowerLetters ==
    <<"a", "b", "c", "d", "e", "f", "g", "h", "i", "j", "k", "l", "m",
      "n", "o", "p", "q", "r", "s", "t", "u", "v", "w", "x", "y", "z">>

\* String.prototype.toLowerCase / toUpperCase, one character
LowerChar(c) ==
    IF \E i \in 1..Len(UpperLetters) : UpperLetters[i] = c
    THEN LowerLetters[CHOOSE i \in 1..Len(UpperLetters) : UpperLetters[i] = c]
    ELSE c

UpperChar(c) ==
    IF \E i \in 1..Len(LowerLetters) : LowerLetters[i] = c
    THEN UpperLetters[CHOOSE i \in 1..Len(LowerLetters) : LowerLetters[i] = c]
    ELSE c

toLowerCase(s) == [i \in 1..Len(s) |-> LowerChar(s[i])]

toUpperCase(s) == [i \in 1..Len(s) |-> UpperChar(s[i])]

RECURSIVE trimStart(_)
trimStart(s) == IF s # <<>> /\ IsSpace(Head(s)) THEN trimStart(Tail(s)) ELSE s

RECURSIVE trimEnd(_)
trimEnd(s) ==
    IF s # <<>> /\ IsSpace(s[Len(s)]) THEN trimEnd(SubSeq(s, 1, Len(s) - 1)) ELSE s

\* String.prototype.trim
trim(s) == trimEnd(trimStart(s))

\* String.prototype.includes(',') : a substring test
includes(s, sub) ==
    \E i \in 1..(Len(s) - Len(sub) + 1) : SubSeq(s, i, i + Len(sub) - 1) = sub

Comma == <<",">>

\* String.prototype.split(',')
RECURSIVE split(_)
split(s) ==
    IF \E i \in 1..Len(s) : s[i] = ","
    THEN LET i == CHOOSE k \in 1..Len(s) : s[k] = "," /\ \A j \in 1..(k - 1) : s[j] # ","
         IN  <<SubSeq(s, 1, i - 1)>> \o split(SubSeq(s, i + 1, Len(s)))
    ELSE <<s>>

\* Array.prototype.join(',')
RECURSIVE join(_)
join(a) ==
    IF a = <<>> THEN <<>>
    ELSE IF Len(a) = 1 THEN a[1]
    ELSE a[1] \o Comma \o join(Tail(a))

\* the value of a string of decimal digits
RECURSIVE DecVal(_)
DecVal(s) == IF s = <<>> THEN 0 ELSE 10 * DecVal(SubSeq(s, 1, Len(s) - 1)) + DigitVal(s[Len(s)])

\* the decimal digits of a natural number
RECURSIVE DecStr(_)
DecStr(n) == IF n < 10 THEN <<Digits[n + 1]>> ELSE DecStr(n \div 10) \o <<Digits[(n % 10) + 1]>>

\* the longest prefix of s made of decimal digits
RECURSIVE DigitPrefix(_)
DigitPrefix(s) ==
    IF s # <<>> /\ IsDigit(Head(s)) THEN <<Head(s)>> \o DigitPrefix(Tail(s)) ELSE <<>>

\* String(x)
String(x) ==
    CASE x.t = "string" -> x.s
      [] x.t = "number" -> IF x.n < 0 THEN <<"-">> \o DecStr(-x.n) ELSE DecStr(x.n)
      [] x.t = "array" -> join(x.a)
      [] OTHER -> <<"u", "n", "d", "e", "f", "i", "n", "e", "d">>

\* !!x
Truthy(x) ==
    CASE x.t = "string" -> x.s # <<>>
      [] x.t = "number" -> x.n # 0
      [] x.t = "array" -> TRUE
      [] OTHER -> FALSE

\* parseInt of a string, radix 10 (the modelled alphabets hold no "x", so the
\* hexadecimal prefix never occurs): leading white space, an optional sign, then
\* the longest run of digits; NaN when that run is empty.
parseIntStr(s) ==
    LET t == trimStart(s)
        neg == t # <<>> /\ Head(t) = "-"
        u == IF t # <<>> /\ Head(t) \in {"-", "+"} THEN Tail(t) ELSE t
        d == DigitPrefix(u)
    IN  IF d = <<>> THEN NaN
        ELSE Int32(IF neg THEN -DecVal(d) ELSE DecVal(d))

\* parseInt(x) converts its argument with String(x) first
parseInt(x) == parseIntStr(String(x))

\* /^\d+$/.test(s)
AllDigits(s) == s # <<>> /\ \A i \in 1..Len(s) : IsDigit(s[i])

\* x === 'all'
All == <<"a", "l", "l">>

IsAll(x) == x.t = "string" /\ x.s = All

\* x.includes(',') for a string, and for an array (an element equal to ",")
jsIncludesComma(x) ==
    CASE x.t = "string" -> includes(x.s, Comma)
      [] x.t = "array" -> \E i \in 1..Len(x.a) : x.a[i] = Comma
      [] OTHER -> FALSE

\* whether x has a method of that name (a call of a missing method throws TypeError)
HasStringMethods(x) == x.t = "string"

(***************************************************************************)
(* VALIDATION HELPERS                                                      *)
(***************************************************************************)
Valid == [threw |-> FALSE, isValid |-> TRUE, error |-> "", value |-> <<>>]
Invalid(msg) == [threw |-> FALSE, isValid |-> FALSE, error |-> msg, value |-> <<>>]
ValidValue(v) == [threw |-> FALSE, isValid |-> TRUE, error |-> "", value |-> v]
Threw(msg) == [threw |-> TRUE, isValid |-> FALSE, error |-> msg, value |-> <<>>]

MinAssemblyId == 1
MaxAssemblyId == 999999

\* the loop over the ids of a comma-separated list: the first failing id decides
RECURSIVE validateIds(_)
validateIds(ids) ==
    IF ids = <<>> THEN Valid
    ELSE LET trimmedId == trim(Head(ids))
         IN  IF ~AllDigits(trimmedId) THEN Invalid("Assembly IDs must be numeric")
             ELSE LET numId == parseIntStr(trimmedId).n
                  IN  IF numId < MinAssemblyId \/ numId > MaxAssemblyId
                      THEN Invalid("Assembly ID out of valid range")
                      ELSE validateIds(Tail(ids))

validateAssemblyId(assembly_id) ==
    IF ~Truthy(assembly_id) THEN Valid
    ELSE IF IsAll(assembly_id) THEN Valid
    ELSE IF assembly_id.t = "string" /\ includes(assembly_id.s, Comma)
    THEN validateIds(split(assembly_id.s))
    ELSE IF ~AllDigits(String(assembly_id)) THEN Invalid("Assembly ID must be numeric")
    ELSE LET numId == parseInt(assembly_id).n
         IN  IF numId < MinAssemblyId \/ numId > MaxAssemblyId
             THEN Invalid("Assembly ID out of valid range")
             ELSE Valid

DefaultPage == 1
DefaultLimit == 100
MaxLimit == 1000

\* x || d
OrDefault(x, d) == IF Truthy(x) THEN x ELSE JNum(d)

validatePagination(page, limit) ==
    LET pageNum == parseInt(OrDefault(page, DefaultPage))
        limitNum == parseInt(OrDefault(limit, DefaultLimit))
    IN  IF pageNum.nan \/ pageNum.n < 1 THEN Invalid("Page must be a positive integer")
        ELSE IF limitNum.nan \/ limitNum.n < 1 \/ limitNum.n > MaxLimit
        THEN Invalid("Limit must be between 1 and 1000")
        ELSE ValidValue([page |-> pageNum.n, limit |-> limitNum.n])

MaxParamLength == 255

IsWordChar(c) ==
    \/ IsDigit(c)
    \/ c = "_"
    \/ \E i \in 1..Len(UpperLetters) : c = UpperLetters[i] \/ c = LowerLetters[i]

\* \bKW\b under the i flag: KW as a whole word somewhere in s
HasWord(s, kw) ==
    \E i \in 1..(Len(s) - Len(kw) + 1) :
        /\ toLowerCase(SubSeq(s, i, i + Len(kw) - 1)) = kw
        /\ (i = 1 \/ ~IsWordChar(s[i - 1]))
        /\ (i + Len(kw) > Len(s) \/ ~IsWordChar(s[i + Len(kw)]))

SqlKeywords ==
    { <<"o", "r">>, <<"a", "n", "d">>, <<"u", "n", "i", "o", "n">>,
      <<"s", "e", "l", "e", "c", "t">>, <<"d", "r", "o", "p">>,
      <<"i", "n", "s", "e", "r", "t">>, <<"u", "p", "d", "a", "t", "e">>,
      <<"d", "e", "l", "e", "t", "e">> }

\* the pattern without its keyword alternatives
sqlInjectionPatternWithoutKeywords(s) ==
    \/ includes(s, <<"'">>)
    \/ includes(s, <<"-", "-">>)
    \/ includes(s, <<";">>)
    \/ includes(s, <<"|", "|">>)
    \/ includes(s, <<"*">>)

\* sqlInjectionPattern.test(s)
sqlInjectionPattern(s) ==
    \/ includes(s, <<"'">>)
    \/ includes(s, <<"-", "-">>)
    \/ includes(s, <<";">>)
    \/ includes(s, <<"|", "|">>)
    \/ includes(s, <<"*">>)
    \/ \E kw \in SqlKeywords : HasWord(s, kw)

validateStringParam(param, paramName, required) ==
    IF ~Truthy(param)
    THEN IF required THEN Invalid(<<paramName, "is required">>) ELSE ValidValue(<<>>)
    ELSE IF ~HasStringMethods(param) THEN Threw("TypeError: param.trim is not a function")
    ELSE IF trim(param.s) = <<>>
    THEN IF required THEN Invalid(<<paramName, "is required">>) ELSE ValidValue(<<>>)
    ELSE LET trimmed == trim(String(param))
         IN  IF sqlInjectionPattern(trimmed)
             THEN Invalid(<<paramName, "contains invalid characters">>)
             ELSE IF Len(trimmed) > MaxParamLength
             THEN Invalid(<<paramName, "is too long (max 255 characters)">>)
             ELSE ValidValue(trimmed)

Separate == <<"s", "e", "p", "a", "r", "a", "t", "e">>
Combined == <<"c", "o", "m", "b", "i", "n", "e", "d">>

\* the comparison made without trimming
validateViewModeUntrimmed(view_mode) ==
    IF ~Truthy(view_mode) THEN ValidValue(Separate)
    ELSE LET mode == toLowerCase(String(view_mode))
         IN  IF mode \notin {Separate, Combined}
             THEN Invalid("view_mode must be either separate or combined")
             ELSE ValidValue(mode)

validateViewMode(view_mode) ==
    IF ~Truthy(view_mode) THEN ValidValue(Separate)
    ELSE LET mode == trim(toLowerCase(String(view_mode)))
         IN  IF mode \notin {Separate, Combined}
             THEN Invalid("view_mode must be either separate or combined")
             ELSE ValidValue(mode)

(***************************************************************************)
(* The state before any request: the tables are empty (they are populated  *)
(* externally), nothing has been asked and nothing answered.               *)
(***************************************************************************)
NoRequest == [op |-> "none"]
NoResponse == [status |-> 0]

InitTables ==
    /\ tbl_all_surname = <<>>
    /\ assembly_vandan = <<>>
    /\ election_results_col = <<>>
    /\ party_position = [AC |-> <<>>, PE |-> <<>>]

Init ==
    /\ InitTables
    /\ req = NoRequest
    /\ res = NoResponse
    /\ called = <<>>
    /\ queries = <<>>

(***************************************************************************)
(* The validators applied to raw parameters, as express hands them over:   *)
(* absent, a string, a number (JSON body) or an array (a repeated key).    *)
(***************************************************************************)
\* no request is being answered
Idle == req = NoRequest

\* the answer has been delivered; the process keeps nothing of the request
Complete ==
    /\ ~Idle
    /\ req' = NoRequest
    /\ res' = NoResponse
    /\ called' = <<>>
    /\ queries' = <<>>
    /\ UNCHANGED tables

StringsUpTo(chars, n) == UNION {[1..k -> chars] : k \in 0..n}

AssemblyIdChars == {"0", "1", " ", ",", "a"}

AssemblyIdInputs ==
    {Undefined}
    \cup {JStr(s) : s \in StringsUpTo(AssemblyIdChars, MaxLen)}
    \cup {JStr(All),
          JStr(<<"9", "9", "9", "9", "9", "9">>),
          JStr(<<"1", "0", "0", "0", "0", "0", "0">>),
          JStr(<<"1", ",", "1", "0", "0", "0", "0", "0", "0">>)}
    \cup {JNum(0), JNum(5), JNum(1000000)}
    \cup {JArr(<< <<"1">>, <<"2">> >>), JArr(<< <<"5">> >>)}

PaginationChars == {"0", "1", "2", ".", "a"}

PaginationInputs ==
    {Undefined}
    \cup {JStr(s) : s \in StringsUpTo(PaginationChars, MaxPagLen)}
    \cup {JStr(<<"1", "0", "a", "b", "c">>), JStr(<<"2", ".", "5">>),
          JStr(<<"1", "0", "0", "0">>), JStr(<<"1", "0", "0", "1">>)}
    \cup {JNum(0), JNum(3), JNum(1001)}

TextChars == {"a", "O", "r", "'", " ", "-"}

TextInputs ==
    {Undefined}
    \cup {JStr(s) : s \in StringsUpTo(TextChars, MaxTextLen)}
    \cup {JStr(<<"a", " ", "o", "r", " ", "a">>), JStr(<<"o", "r", "a">>)}
    \cup {JStr(<<"*">>), JStr(<<"a", "|", "|", "a">>), JStr(<<"|">>), JStr(<<";">>),
          JStr(<<"a", "_", "o", "r">>), JStr(<<"\"">>), JStr(<<"d", "R", "o", "p", " ">>)}
    \cup {JStr([i \in 1..n |-> "a"] \o pad) :
            n \in {MaxParamLength - 1, MaxParamLength, MaxParamLength + 1},
            pad \in {<<>>, <<" ", " ">>}}
    \cup {JNum(7), JArr(<< <<"a">>, <<"a">> >>)}

ViewModeInputs ==
    {Undefined, JStr(<<>>), JStr(Separate), JStr(Combined),
     JStr(toUpperCase(Combined)), JStr(<<" ">> \o Combined \o <<" ">>),
     JStr(<<"a", "l", "l">>), JStr(<<"c", "o", "m", "b", "i", "n", "e">>),
     JArr(<<Combined>>), JArr(<<Separate, Combined>>), JNum(1)}

CallValidateAssemblyId ==
    \E assembly_id \in AssemblyIdInputs :
        /\ Idle
        /\ req' = [op |-> "validateAssemblyId", assembly_id |-> assembly_id]
        /\ res' = validateAssemblyId(assembly_id)
        /\ UNCHANGED <<tables, called, queries>>

CallValidatePagination ==
    \E page \in PaginationInputs, limit \in PaginationInputs :
        /\ Idle
        /\ req' = [op |-> "validatePagination", page |-> page, limit |-> limit]
        /\ res' = validatePagination(page, limit)
        /\ UNCHANGED <<tables, called, queries>>

CallValidateStringParam ==
    \E param \in TextInputs, required \in BOOLEAN :
        /\ Idle
        /\ req' = [op |-> "validateStringParam", param |-> param, required |-> required]
        /\ res' = validateStringParam(param, "Category", required)
        /\ UNCHANGED <<tables, called, queries>>

CallValidateViewMode ==
    \E view_mode \in ViewModeInputs :
        /\ Idle
        /\ req' = [op |-> "validateViewMode", view_mode |-> view_mode]
        /\ res' = validateViewMode(view_mode)
        /\ UNCHANGED <<tables, called, queries>>

NextValidators ==
    \/ CallValidateAssemblyId
    \/ CallValidatePagination
    \/ CallValidateStringParam
    \/ CallValidateViewMode
    \/ Complete

SpecValidators == Init /\ [][NextValidators]_vars

ValidatorOps ==
    {"validateAssemblyId", "validatePagination", "validateStringParam", "validateViewMode"}

(***************************************************************************)
(* C2.  validateAssemblyId accepts a present input other than "all" if and *)
(* only if every comma-separated token, trimmed, is a decimal positive     *)
(* integer in [1, 999999]; the same rule for a single value and for each   *)
(* element of a list.                                                      *)
(***************************************************************************)
TokenInRange(tok) ==
    /\ AllDigits(trim(tok))
    /\ DecVal(trim(tok)) >= 1
    /\ DecVal(trim(tok)) <= 999999

EveryTokenInRange(s) == \A i \in 1..Len(split(s)) : TokenInRange(split(s)[i])

PresentString(x) == x.t = "string" /\ x.s # <<>> /\ x.s # All

C2_AcceptsIffEveryTokenInRange ==
    (req.op = "validateAssemblyId" /\ PresentString(req.assembly_id))
        => (res.isValid <=> EveryTokenInRange(req.assembly_id.s))

(***************************************************************************)
(* C3.  validatePagination returns page 1 / limit 100 for absent values,   *)
(* and rejects every supplied value unless page is a positive integer and  *)
(* limit is an integer in [1, 1000]; it never clamps or substitutes.       *)
(***************************************************************************)
\* x is written as a decimal integer (or is one)
IsInteger(x) == x.t = "number" \/ (x.t = "string" /\ AllDigits(x.s))

IntegerOf(x) == IF x.t = "number" THEN x.n ELSE DecVal(x.s)

\* not supplied: undefined, or the empty string of "?page="
Absent(x) == x = Undefined \/ (x.t = "string" /\ x.s = <<>>)

C3_PaginationRejectsNotClamps ==
    req.op = "validatePagination" =>
        LET pageOk == Absent(req.page) \/ (IsInteger(req.page) /\ IntegerOf(req.page) >= 1)
            limitOk ==
                \/ Absent(req.limit)
                \/ (IsInteger(req.limit) /\ IntegerOf(req.limit) >= 1
                                         /\ IntegerOf(req.limit) <= 1000)
        IN  /\ res.isValid <=> (pageOk /\ limitOk)
            /\ res.isValid =>
                  /\ res.value.page = IF Absent(req.page) THEN 1 ELSE IntegerOf(req.page)
                  /\ res.value.limit = IF Absent(req.limit) THEN 100 ELSE IntegerOf(req.limit)

(***************************************************************************)
(* C4.  Every validator returns a valid or an invalid result for every raw *)
(* input, absent and non-string values included; it never throws.          *)
(***************************************************************************)
C4_ValidatorsNeverThrow == req.op \in ValidatorOps => ~res.threw

(***************************************************************************)
(* The routers.  A route is a method, a path and the chain of handlers     *)
(* express runs for it in order; a handler either answers or calls next(). *)
(***************************************************************************)
Route(router, method, path, chain) ==
    [router |-> router, method |-> method, path |-> path, chain |-> chain]

surnameRoute ==
    { Route("surnameRoute", "GET", "/assemblies", <<"getAssemblies">>),
      Route("surnameRoute", "POST", "/search", <<"getSurnames">>),
      Route("surnameRoute", "GET", "/category", <<"getAllCategoryStatus">>),
      Route("surnameRoute", "GET", "/caste-details", <<"getCasteDetailsByCategory">>),
      Route("surnameRoute", "GET", "/caste", <<"getAllCasteStatus">>),
      Route("surnameRoute", "GET", "/surname-details", <<"getSurnameDetailsByCaste">>),
      Route("surnameRoute", "GET", "/surname-similar", <<"getAllSurnameSimilarStats">>),
      Route("surnameRoute", "GET", "/by-caste/all", <<"getAllCastesWithCount">>),
      Route("surnameRoute", "GET", "/by-caste/assembly", <<"getCasteByAssembly">>) }

electionResultsRoute ==
    { Route("electionResultsRoute", "GET", "/analytics/:position",
            <<"isAuthenticated", "getPositionWiseAnalytics">>),
      Route("electionResultsRoute", "GET", "/details",
            <<"isAuthenticated", "getPositionDetailsByParty">>) }

bjpResultsRoute ==
    { Route("bjpResultsRoute", "GET", "/all", <<"isAuthenticated", "getAllBjpResults">>),
      Route("bjpResultsRoute", "GET", "/type/:election_type",
            <<"isAuthenticated", "getBjpResultsByType">>),
      Route("bjpResultsRoute", "GET", "/year/:year",
            <<"isAuthenticated", "getBjpResultsByYear">>) }

\* the routes the application object declares itself
app ==
    { Route("app", "GET", "/", <<"hello">>),
      Route("app", "GET", "/health", <<"health">>) }

Routes == surnameRoute \cup electionResultsRoute \cup bjpResultsRoute \cup app

\* what the Authorization header of a request can hold
Credentials == {"absent", "malformed", "expired", "valid"}

\* the authentication middleware: next() for a valid bearer credential, 401 otherwise
isAuthenticated(credential) == credential = "valid"

Unauthorized == [status |-> 401]
Handled == [status |-> 200]

\* a request arrives at a router
Receive ==
    \E route \in Routes, credential \in Credentials :
        /\ Idle
        /\ req' = [op |-> "http", route |-> route, credential |-> credential]
        /\ UNCHANGED <<tables, res, called, queries>>

\* express runs the next handler of the route's chain
RunMiddleware ==
    /\ req.op = "http"
    /\ res = NoResponse
    /\ Len(called) < Len(req.route.chain)
    /\ req.route.chain[Len(called) + 1] = "isAuthenticated"
    /\ called' = Append(called, "isAuthenticated")
    /\ res' = IF isAuthenticated(req.credential) THEN res ELSE Unauthorized
    /\ UNCHANGED <<tables, req, queries>>

RunController ==
    /\ req.op = "http"
    /\ res = NoResponse
    /\ Len(called) < Len(req.route.chain)
    /\ req.route.chain[Len(called) + 1] # "isAuthenticated"
    /\ called' = Append(called, req.route.chain[Len(called) + 1])
    /\ queries' = IF req.route.router = "app" THEN queries
                  ELSE Append(queries, req.route.chain[Len(called) + 1])
    /\ res' = Handled
    /\ UNCHANGED <<tables, req>>

Next ==
    \/ Receive
    \/ RunMiddleware
    \/ RunController
    \/ Complete

Spec == Init /\ [][Next]_vars

(***************************************************************************)
(* C1.  For every route of the surname, election-results and BJP-results   *)
(* routers the controller runs, and the data store is reached, only after  *)
(* the authentication middleware has accepted the request's credential.    *)
(***************************************************************************)
GatedRouters == {"surnameRoute", "electionResultsRoute", "bjpResultsRoute"}

ControllerRan ==
    \E i \in 1..Len(called) : called[i] # "isAuthenticated"

AuthAccepted ==
    /\ \E i \in 1..Len(called) : called[i] = "isAuthenticated"
    /\ req.credential = "valid"

C1_ControllerOnlyAfterAuth ==
    (req.op = "http" /\ req.route.router \in GatedRouters /\ (ControllerRan \/ queries # <<>>))
        => AuthAccepted

(***************************************************************************)
(* The data store.  A column value is a string (a sequence of characters)  *)
(* or NULL; the result of a query whose order SQL leaves open is any order *)
(* the ORDER BY clause allows.                                             *)
(***************************************************************************)
Null == <<"NULL">>      \* SQL NULL: no string of characters
JsNull == [t |-> "null"]

SurnameRow(category, caste, similar, assembly_no, count_num) ==
    [surname_category |-> category, surname_caste |-> caste, surname_similar |-> similar,
     assembly_no |-> assembly_no, count_num |-> count_num]

AssemblyRow(id, assembly_id, assembly_name) ==
    [id |-> id, assembly_id |-> assembly_id, assembly_name |-> assembly_name]

\* the sequences that list every element of S exactly once
Listings(S) ==
    {s \in [1..Cardinality(S) -> S] : \A i, j \in 1..Cardinality(S) : i # j => s[i] # s[j]}

\* the listings of S in which consecutive elements respect the ORDER BY relation
\* inOrder, a Boolean function of two elements of S
OrderedBy(S, inOrder) ==
    {s \in Listings(S) : \A i \in 1..(Len(s) - 1) : inOrder[s[i], s[i + 1]]}

RECURSIVE SumCountNum(_)
SumCountNum(ids) ==
    IF ids = {} THEN 0
    ELSE LET i == CHOOSE k \in ids : TRUE
         IN  tbl_all_surname[i].count_num + SumCountNum(ids \ {i})

(***************************************************************************)
(* HELPER FUNCTION: Build filter for assembly selection                    *)
(***************************************************************************)
NoFilter == [threw |-> FALSE, kind |-> "none", id |-> 0, ids |-> <<>>]
EqFilter(n) == [threw |-> FALSE, kind |-> "eq", id |-> n, ids |-> <<>>]
InFilter(ns) == [threw |-> FALSE, kind |-> "in", id |-> 0, ids |-> ns]
FilterError == [threw |-> TRUE, kind |-> "none", id |-> 0, ids |-> <<>>]

buildAssemblyFilter(assembly_id) ==
    IF Truthy(assembly_id) /\ ~IsAll(assembly_id)
    THEN IF jsIncludesComma(assembly_id)
         THEN IF ~HasStringMethods(assembly_id) THEN FilterError
              ELSE LET parts == split(assembly_id.s)
                       parsed == [i \in 1..Len(parts) |-> parseIntStr(trim(parts[i]))]
                   IN  IF \E i \in 1..Len(parts) : parsed[i].nan THEN FilterError
                       ELSE InFilter([i \in 1..Len(parts) |-> parsed[i].n])
         ELSE LET parsed == parseInt(assembly_id)
              IN  IF parsed.nan THEN FilterError ELSE EqFilter(parsed.n)
    ELSE NoFilter

\* which of the three SQL texts the controllers pick:
\* filter.assembly_no && filter.assembly_no.in, else filter.assembly_no, else none
FilterBranch(filter) ==
    IF filter.kind = "in" THEN "in"
    ELSE IF filter.kind = "eq" /\ filter.id # 0 THEN "eq"
    ELSE "none"

\* WHERE assembly_no IN (..) / WHERE assembly_no = .. / no assembly condition
MatchesAssembly(row, filter) ==
    CASE FilterBranch(filter) = "in" -> \E i \in 1..Len(filter.ids) : row.assembly_no = filter.ids[i]
      [] FilterBranch(filter) = "eq" -> row.assembly_no = filter.id
      [] OTHER -> TRUE

(***************************************************************************)
(* HELPER FUNCTION: Get assembly details                                   *)
(***************************************************************************)
\* assemblyMap.get(n) of the Map built from the assembly rows found
getAssemblyDetails(assemblyNumbers, n) ==
    LET found == {i \in DOMAIN assembly_vandan :
                      /\ assembly_vandan[i].assembly_id \in assemblyNumbers
                      /\ assembly_vandan[i].assembly_id = n}
    IN  IF found = {} THEN Undefined
        ELSE assembly_vandan[CHOOSE i \in found : \A j \in found : j <= i]

(***************************************************************************)
(* The raw statistics queries, for a dimension column dim.                 *)
(***************************************************************************)
\* WHERE <assembly filter> AND dim IS NOT NULL AND dim != ''
StatRows(dim, filter) ==
    {i \in DOMAIN tbl_all_surname :
        /\ MatchesAssembly(tbl_all_surname[i], filter)
        /\ tbl_all_surname[i][dim] # Null
        /\ tbl_all_surname[i][dim] # <<>>}

\* SELECT dim, assembly_no, SUM(count_num) ... GROUP BY dim, assembly_no
SumByAssembly(dim, filter) ==
    { [value |-> g[1], assembly_no |-> g[2],
       total_count |-> SumCountNum({i \in StatRows(dim, filter) :
                          /\ tbl_all_surname[i][dim] = g[1]
                          /\ tbl_all_surname[i].assembly_no = g[2]})] :
      g \in {<<tbl_all_surname[i][dim], tbl_all_surname[i].assembly_no>> :
                 i \in StatRows(dim, filter)} }

\* COUNT(*) in place of SUM(count_num)
SumCombinedCountingRows(dim, filter) ==
    { [value |-> v,
       total_count |-> Cardinality({i \in StatRows(dim, filter) :
                          tbl_all_surname[i][dim] = v})] :
      v \in {tbl_all_surname[i][dim] : i \in StatRows(dim, filter)} }

\* SELECT dim, SUM(count_num) ... GROUP BY dim
SumCombined(dim, filter) ==
    { [value |-> v,
       total_count |-> SumCountNum({i \in StatRows(dim, filter) :
                          tbl_all_surname[i][dim] = v})] :
      v \in {tbl_all_surname[i][dim] : i \in StatRows(dim, filter)} }

\* COUNT(DISTINCT child) of the group (assembly_no, dim): NULLs are not counted
DistinctByAssembly(dim, child, filter, assembly_no, v) ==
    Cardinality({tbl_all_surname[i][child] : i \in {k \in StatRows(dim, filter) :
                    /\ tbl_all_surname[k][dim] = v
                    /\ tbl_all_surname[k].assembly_no = assembly_no
                    /\ tbl_all_surname[k][child] # Null}})

\* COUNT(child) of the group dim: every row with a child value is counted
DistinctCombinedCountingRows(dim, child, filter, v) ==
    Cardinality({k \in StatRows(dim, filter) :
                    /\ tbl_all_surname[k][dim] = v
                    /\ tbl_all_surname[k][child] # Null})

\* COUNT(DISTINCT child) of the group dim
DistinctCombined(dim, child, filter, v) ==
    Cardinality({tbl_all_surname[i][child] : i \in {k \in StatRows(dim, filter) :
                    /\ tbl_all_surname[k][dim] = v
                    /\ tbl_all_surname[k][child] # Null}})

\* ORDER BY assembly_no ASC
AssemblyAsc(a, b) == a.assembly_no <= b.assembly_no

\* ORDER BY assembly_no ASC, total_count DESC
AssemblyAscCountDesc(a, b) ==
    \/ a.assembly_no < b.assembly_no
    \/ (a.assembly_no = b.assembly_no /\ a.total_count >= b.total_count)

\* ORDER BY total_count DESC
CountDesc(a, b) == a.total_count >= b.total_count

\* the ORDER BY clause of a statistics query as a relation over its groups; a
\* query without the clause returns its groups in any order
StatOrder(orderBy, groups) ==
    [a \in groups, b \in groups |->
        CASE orderBy = "assembly_no ASC" -> AssemblyAsc(a, b)
          [] orderBy = "assembly_no ASC, total_count DESC" -> AssemblyAscCountDesc(a, b)
          [] orderBy = "total_count DESC" -> CountDesc(a, b)
          [] OTHER -> TRUE]

\* Array.prototype.sort((a, b) => b.total_count - a.total_count): a stable sort
RECURSIVE InsertDesc(_, _)
InsertDesc(sorted, x) ==
    IF sorted = <<>> THEN <<x>>
    ELSE IF Head(sorted).total_count >= x.total_count
    THEN <<Head(sorted)>> \o InsertDesc(Tail(sorted), x)
    ELSE <<x>> \o sorted

\* the array left as the query returned it
keepQueryOrder(s) == s

RECURSIVE sortByCountDesc(_)
sortByCountDesc(s) ==
    IF s = <<>> THEN <<>>
    ELSE InsertDesc(sortByCountDesc(SubSeq(s, 1, Len(s) - 1)), s[Len(s)])

\* the numbers of a set in descending order
RECURSIVE Descending(_)
Descending(S) ==
    IF S = {} THEN <<>>
    ELSE LET hi == CHOOSE x \in S : \A y \in S : x >= y
         IN  <<hi>> \o Descending(S \ {hi})

\* the numbers of a set in ascending order (integer keys of an object)
RECURSIVE Ascending(_)
Ascending(S) ==
    IF S = {} THEN <<>>
    ELSE LET lo == CHOOSE x \in S : \A y \in S : x <= y
         IN  <<lo>> \o Ascending(S \ {lo})

combinedAssembly == [id |-> 0, assembly_id |-> 0, assembly_name |-> "All Assemblies Combined"]

\* a handler that has already asked the store when it answers
OutcomeAfterQuery(response, calls, issued) ==
    [res |-> response, called |-> calls,
     queries |-> <<[sql |-> <<"SELECT 1">>, filter |-> NoFilter]>> \o issued]

Outcome(response, calls, issued) == [res |-> response, called |-> calls, queries |-> issued]

Response(status, body) == [status |-> status, body |-> body]

BadRequest(error, message) == Response(400, [error |-> error, message |-> message])

ServerError(error, message) == Response(500, [error |-> error, message |-> message])

Query(sql, filter) == [sql |-> sql, filter |-> filter]

\* `${assembly_no}_${value}` -> the breadth recorded for that group, 0 when missing
\* stats entries are named after the dimension: {dim, total_count, breadth}
StatEntry(dim, breadthName, value, total, breadth) ==
    IF breadthName = "" THEN (dim :> value) @@ ("total_count" :> total)
    ELSE (dim :> value) @@ ("total_count" :> total) @@ (breadthName :> breadth)

\* Object.values(resultByAssembly): one {assembly, stats} per assembly number, the
\* numbers ascending, the stats in the order the query returned them
resultByAssembly(dim, child, breadthName, filter, stats) ==
    LET numbers == {stats[i].assembly_no : i \in 1..Len(stats)}
        order == Ascending(numbers)
        ofAssembly(n) ==
            LET idx == Ascending({i \in 1..Len(stats) : stats[i].assembly_no = n})
            IN  [k \in 1..Len(idx) |->
                    StatEntry(dim, breadthName, stats[idx[k]].value, stats[idx[k]].total_count,
                              IF breadthName = "" THEN 0
                              ELSE DistinctByAssembly(dim, child, filter, n, stats[idx[k]].value))]
    IN  [k \in 1..Len(order) |->
            [assembly |-> getAssemblyDetails(numbers, order[k]), stats |-> ofAssembly(order[k])]]

\* the three separate-view controllers share this body
StatsSeparate(name, dim, child, breadthName, orderBy, assembly_id) ==
    LET assemblyValidation == validateAssemblyId(assembly_id)
        filter == buildAssemblyFilter(assembly_id)
        sumQuery == Query(<<"SUM", dim, "GROUP BY", dim, "assembly_no">>, filter)
        countQuery == Query(<<"COUNT DISTINCT", child, "GROUP BY assembly_no", dim>>, filter)
        assemblyQuery == Query(<<"assembly_vandan.findMany">>, NoFilter)
        issued == IF breadthName = "" THEN <<sumQuery, assemblyQuery>>
                  ELSE <<sumQuery, countQuery, assemblyQuery>>
    IN  IF ~assemblyValidation.isValid
        THEN {Outcome(BadRequest("Invalid assembly_id", assemblyValidation.error),
                      <<name>>, <<>>)}
        ELSE IF filter.threw
        THEN {Outcome(ServerError("Failed to fetch statistics", "Invalid assembly ID format"),
                      <<name>>, <<>>)}
        ELSE { LET result == resultByAssembly(dim, child, breadthName, filter, stats)
               IN  IF Truthy(assembly_id) /\ ~IsAll(assembly_id) /\ ~jsIncludesComma(assembly_id)
                   THEN Outcome(Response(200,
                                    IF result # <<>> THEN result[1]
                                    ELSE [assembly |-> JsNull, stats |-> <<>>]),
                                <<name>>, issued)
                   ELSE Outcome(Response(200, [items |-> result]), <<name>>, issued)
               : stats \in OrderedBy(SumByAssembly(dim, filter),
                                    StatOrder(orderBy, SumByAssembly(dim, filter))) }

\* the three combined-view controllers share this body; sorted tells whether the
\* controller sorts in JavaScript (category, caste) or in SQL (surname-similar)
StatsCombined(name, dim, child, breadthName, orderBy, sorted, assembly_id) ==
    LET assemblyValidation == validateAssemblyId(assembly_id)
        filter == buildAssemblyFilter(assembly_id)
        sumQuery == Query(<<"SUM", dim, "GROUP BY", dim>>, filter)
        countQuery == Query(<<"COUNT DISTINCT", child, "GROUP BY", dim>>, filter)
        issued == IF breadthName = "" THEN <<sumQuery>> ELSE <<sumQuery, countQuery>>
    IN  IF ~assemblyValidation.isValid
        THEN {Outcome(BadRequest("Invalid assembly_id", assemblyValidation.error),
                      <<name>>, <<>>)}
        ELSE IF filter.threw
        THEN {Outcome(ServerError("Failed to fetch combined statistics",
                                  "Invalid assembly ID format"), <<name>>, <<>>)}
        ELSE { LET statsArray ==
                       [k \in 1..Len(stats) |->
                           StatEntry(dim, breadthName, stats[k].value, stats[k].total_count,
                                     IF breadthName = "" THEN 0
                                     ELSE DistinctCombined(dim, child, filter, stats[k].value))]
               IN  Outcome(Response(200,
                              [assembly |-> combinedAssembly,
                               stats |-> IF sorted THEN sortByCountDesc(statsArray)
                                         ELSE statsArray,
                               isCombined |-> TRUE]),
                           <<name>>, issued)
               : stats \in OrderedBy(SumCombined(dim, filter),
                                    StatOrder(orderBy, SumCombined(dim, filter))) }

getCategoryStatsSeparate(query) ==
    StatsSeparate("getCategoryStatsSeparate", "surname_category", "surname_caste",
                  "total_cast", "assembly_no ASC", query.assembly_id)

getCategoryStatsCombined(query) ==
    StatsCombined("getCategoryStatsCombined", "surname_category", "surname_caste",
                  "total_cast", "", TRUE, query.assembly_id)

getCasteStatsSeparate(query) ==
    StatsSeparate("getCasteStatsSeparate", "surname_caste", "surname_similar",
                  "total_similar", "assembly_no ASC", query.assembly_id)

getCasteStatsCombined(query) ==
    StatsCombined("getCasteStatsCombined", "surname_caste", "surname_similar",
                  "total_similar", "", TRUE, query.assembly_id)

getSurnameSimilarStatsSeparate(query) ==
    StatsSeparate("getSurnameSimilarStatsSeparate", "surname_similar", "surname_similar",
                  "", "assembly_no ASC, total_count DESC", query.assembly_id)

getSurnameSimilarStatsCombined(query) ==
    StatsCombined("getSurnameSimilarStatsCombined", "surname_similar", "surname_similar",
                  "", "total_count DESC", FALSE, query.assembly_id)

(***************************************************************************)
(* MAIN CONTROLLERS: route to the appropriate view controller              *)
(***************************************************************************)
\* view_mode = 'separate' when the query has none
ViewModeOrDefault(query) ==
    IF query.view_mode = Undefined THEN JStr(Separate) ELSE query.view_mode

shouldCombineIgnoringIds(mode, assembly_id) == mode = Combined

shouldCombine(mode, assembly_id) ==
    /\ mode = Combined
    /\ (IsAll(assembly_id) \/ (Truthy(assembly_id) /\ jsIncludesComma(assembly_id)))

\* the three dispatchers share this body
Dispatch(name, combinedView, separateView, query) ==
    LET assemblyValidation == validateAssemblyId(query.assembly_id)
        viewModeValidation == validateViewMode(ViewModeOrDefault(query))
        Via(outcomes) ==
            {Outcome(o.res, <<name>> \o o.called, o.queries) : o \in outcomes}
    IN  IF ~assemblyValidation.isValid
        THEN {Outcome(BadRequest("Invalid assembly_id", assemblyValidation.error),
                      <<name>>, <<>>)}
        ELSE IF ~viewModeValidation.isValid
        THEN {Outcome(BadRequest("Invalid view_mode", viewModeValidation.error),
                      <<name>>, <<>>)}
        ELSE IF shouldCombine(viewModeValidation.value, query.assembly_id)
        THEN Via(combinedView)
        ELSE Via(separateView)

getAllCategoryStatus(query) ==
    Dispatch("getAllCategoryStatus", getCategoryStatsCombined(query),
             getCategoryStatsSeparate(query), query)

getAllCasteStatus(query) ==
    Dispatch("getAllCasteStatus", getCasteStatsCombined(query),
             getCasteStatsSeparate(query), query)

getAllSurnameSimilarStats(query) ==
    Dispatch("getAllSurnameSimilarStats", getSurnameSimilarStatsCombined(query),
             getSurnameSimilarStatsSeparate(query), query)

(***************************************************************************)
(* The statistics endpoints over a dataset that is populated externally.   *)
(* The dataset varies in one dimension and its child dimension at a time.  *)
(***************************************************************************)
MaxRows == 2      \* most rows of the surname table

AssemblyNos == {1, 2}
CountNums == {1, 2}

CategoryAndCasteRows ==
    {SurnameRow(category, caste, <<"s">>, a, n) :
        category \in {Null, <<"A">>, <<"B">>}, caste \in {<<>>, <<"x">>, <<"y">>},
        a \in AssemblyNos, n \in CountNums}

CasteAndSimilarRows ==
    {SurnameRow(<<"A">>, caste, similar, a, n) :
        caste \in {<<"x">>, <<"y">>}, similar \in {Null, <<"s">>, <<"t">>},
        a \in AssemblyNos, n \in CountNums}

ColumnValues == <<Null, <<>>, <<"A">>, <<"B">>, <<"x">>, <<"y">>, <<"s">>, <<"t">>>>

ValueRank(v) == CHOOSE i \in 1..Len(ColumnValues) : ColumnValues[i] = v

\* a fixed total order of the rows: the tables are filled in this order, since no
\* query depends on the physical order of the rows
RowRank(r) ==
    (((r.assembly_no * 10 + r.count_num) * 10 + ValueRank(r.surname_category)) * 10
        + ValueRank(r.surname_caste)) * 10 + ValueRank(r.surname_similar)

CanAppend(table, r, max) ==
    /\ Len(table) < max
    /\ table # <<>> => RowRank(table[Len(table)]) <= RowRank(r)

SampleAssemblies == <<AssemblyRow(1, 1, "A1"), AssemblyRow(2, 2, "A2")>>

InitStats ==
    /\ tbl_all_surname = <<>>
    /\ assembly_vandan = SampleAssemblies
    /\ election_results_col = <<>>
    /\ party_position = [AC |-> <<>>, PE |-> <<>>]
    /\ req = NoRequest
    /\ res = NoResponse
    /\ called = <<>>
    /\ queries = <<>>

\* a surname row is added from outside
PopulateStats ==
    \E family \in {CategoryAndCasteRows, CasteAndSimilarRows} :
        \E r \in family :
            /\ Idle
            /\ \A i \in DOMAIN tbl_all_surname : tbl_all_surname[i] \in family
            /\ CanAppend(tbl_all_surname, r, MaxRows)
            /\ tbl_all_surname' = Append(tbl_all_surname, r)
            /\ UNCHANGED <<assembly_vandan, election_results_col, party_position,
                           req, res, called, queries>>

StatsAssemblyIds ==
    {Undefined, JStr(All), JStr(<<"1">>), JStr(<<"1", ",", "2">>), JStr(<<"a">>)}

StatsViewModes ==
    {Undefined, JStr(Combined), JStr(toUpperCase(Combined)), JStr(<<"x">>)}

StatsQueries == [assembly_id : StatsAssemblyIds, view_mode : StatsViewModes]

\* a handler that consumes the rows it has read
AnswerDeletingRows(op, query, outcomes) ==
    \E o \in outcomes :
        /\ req' = [op |-> op, query |-> query]
        /\ res' = o.res
        /\ called' = o.called
        /\ queries' = o.queries
        /\ tbl_all_surname' = <<>>
        /\ UNCHANGED <<assembly_vandan, election_results_col, party_position>>

Answer(op, query, outcomes) ==
    \E o \in outcomes :
        /\ req' = [op |-> op, query |-> query]
        /\ res' = o.res
        /\ called' = o.called
        /\ queries' = o.queries
        /\ UNCHANGED tables

GetCategory ==
    \E query \in StatsQueries :
        Idle /\ Answer("GET /category", query, getAllCategoryStatus(query))

GetCaste ==
    \E query \in StatsQueries :
        Idle /\ Answer("GET /caste", query, getAllCasteStatus(query))

GetSurnameSimilar ==
    \E query \in StatsQueries :
        Idle /\ Answer("GET /surname-similar", query, getAllSurnameSimilarStats(query))

NextStats ==
    \/ PopulateStats
    \/ GetCategory
    \/ GetCaste
    \/ GetSurnameSimilar
    \/ Complete

SpecStats == InitStats /\ [][NextStats]_vars

StatsOps == {"GET /category", "GET /caste", "GET /surname-similar"}

(***************************************************************************)
(* C5.  The dispatcher of each dimension routes to the combined            *)
(* aggregation exactly when the validated view mode is "combined" and      *)
(* assembly_id is "all" or a comma-separated list; every other validated   *)
(* request goes to the separate aggregation and carries no isCombined tag. *)
(***************************************************************************)
AsksCombined(query) ==
    /\ query.view_mode.t = "string"
    /\ trim(toLowerCase(query.view_mode.s)) = Combined

NamesSeveral(query) ==
    /\ query.assembly_id.t = "string"
    /\ (query.assembly_id.s = All \/ \E i \in 1..Len(query.assembly_id.s) :
                                         query.assembly_id.s[i] = ",")

CombinedViewOf(op) ==
    CASE op = "GET /category" -> "getCategoryStatsCombined"
      [] op = "GET /caste" -> "getCasteStatsCombined"
      [] op = "GET /surname-similar" -> "getSurnameSimilarStatsCombined"

SeparateViewOf(op) ==
    CASE op = "GET /category" -> "getCategoryStatsSeparate"
      [] op = "GET /caste" -> "getCasteStatsSeparate"
      [] op = "GET /surname-similar" -> "getSurnameSimilarStatsSeparate"

C5_CombinedOnlyForSeveral ==
    (req.op \in StatsOps /\ res.status # 400) =>
        IF AsksCombined(req.query) /\ NamesSeveral(req.query)
        THEN /\ Len(called) = 2 /\ called[2] = CombinedViewOf(req.op)
             /\ "isCombined" \in DOMAIN res.body /\ res.body.isCombined
        ELSE /\ Len(called) = 2 /\ called[2] = SeparateViewOf(req.op)
             /\ "isCombined" \notin DOMAIN res.body

C5_Witness ==
    /\ req.op \in StatsOps
    /\ res.status = 200
    /\ AsksCombined(req.query)
    /\ req.query.assembly_id = JStr(<<"1">>)
    /\ called[2] = SeparateViewOf(req.op)
    /\ "stats" \in DOMAIN res.body /\ res.body.stats # <<>>

(***************************************************************************)
(* C6.  For each dimension and every assembly filter ("all" or a list of   *)
(* ids) the total_count values of the combined response add up to the same *)
(* number as the total_count values of all assemblies of the separate      *)
(* response for that filter.                                               *)
(***************************************************************************)
RECURSIVE SumTotals(_)
SumTotals(stats) ==
    IF stats = <<>> THEN 0 ELSE Head(stats).total_count + SumTotals(Tail(stats))

RECURSIVE SumItems(_)
SumItems(items) ==
    IF items = <<>> THEN 0 ELSE SumTotals(Head(items).stats) + SumItems(Tail(items))

TotalOfBody(body) ==
    IF "items" \in DOMAIN body THEN SumItems(body.items) ELSE SumTotals(body.stats)

SeparateOutcomes(op, query) ==
    CASE op = "GET /category" -> getCategoryStatsSeparate(query)
      [] op = "GET /caste" -> getCasteStatsSeparate(query)
      [] op = "GET /surname-similar" -> getSurnameSimilarStatsSeparate(query)

CombinedOutcomes(op, query) ==
    CASE op = "GET /category" -> getCategoryStatsCombined(query)
      [] op = "GET /caste" -> getCasteStatsCombined(query)
      [] op = "GET /surname-similar" -> getSurnameSimilarStatsCombined(query)

C6_CombinedTotalEqualsSeparateTotal ==
    (req.op \in StatsOps /\ res.status = 200 /\ NamesSeveral(req.query)) =>
        \A s \in SeparateOutcomes(req.op, req.query), c \in CombinedOutcomes(req.op, req.query) :
            /\ s.res.status = 200
            /\ c.res.status = 200
            /\ "items" \in DOMAIN s.res.body
            /\ "isCombined" \in DOMAIN c.res.body
            /\ TotalOfBody(s.res.body) = TotalOfBody(c.res.body)
            /\ TotalOfBody(res.body) = TotalOfBody(c.res.body)

\* two assemblies hold the same category, which the combined view merges into one entry
C6_Witness ==
    /\ req.op = "GET /category"
    /\ res.status = 200
    /\ req.query.assembly_id = JStr(<<"1", ",", "2">>)
    /\ "isCombined" \in DOMAIN res.body
    /\ Len(res.body.stats) = 1
    /\ res.body.stats[1].total_count = 3
    /\ \E s \in getCategoryStatsSeparate(req.query) : Len(s.res.body.items) = 2

(***************************************************************************)
(* POST /search: the paginated surname search                              *)
(***************************************************************************)
\* const { assembly_id, page = 1, limit = 100 } = req.body
OrDefaultUndefined(x, d) == IF x = Undefined THEN JNum(d) ELSE x

\* the where clause: no condition, or assembly_no = parseInt(assembly_id)
searchWhereClause(assembly_id) ==
    IF Truthy(assembly_id) /\ ~(assembly_id.t = "string" /\ assembly_id.s = <<>>)
                           /\ ~IsAll(assembly_id)
    THEN EqFilter(parseInt(assembly_id).n)
    ELSE NoFilter

MatchesWhere(row, where) == where.kind = "eq" => row.assembly_no = where.id

\* orderBy: { count_num: 'desc' } over row numbers
CountNumDesc == [i, j \in DOMAIN tbl_all_surname |->
                    tbl_all_surname[i].count_num >= tbl_all_surname[j].count_num]

\* skip, then take
Page(s, skip, take) ==
    IF skip >= Len(s) THEN <<>>
    ELSE SubSeq(s, skip + 1, IF skip + take < Len(s) THEN skip + take ELSE Len(s))

\* Math.ceil(a / b) for a >= 0, b >= 1
Ceil(a, b) == (a + b - 1) \div b

\* select: { id, surname, surname_caste, surname_category, assembly_no, count_num }
Selected(i) ==
    [id |-> i, surname_caste |-> tbl_all_surname[i].surname_caste,
     surname_category |-> tbl_all_surname[i].surname_category,
     assembly_no |-> tbl_all_surname[i].assembly_no,
     count_num |-> tbl_all_surname[i].count_num]

getSurnames(body) ==
    LET assemblyValidation == validateAssemblyId(body.assembly_id)
        paginationValidation ==
            validatePagination(OrDefaultUndefined(body.page, DefaultPage),
                               OrDefaultUndefined(body.limit, DefaultLimit))
        pageNum == paginationValidation.value.page
        limitNum == paginationValidation.value.limit
        whereClause == searchWhereClause(body.assembly_id)
        skip == (pageNum - 1) * limitNum
        matching == {i \in DOMAIN tbl_all_surname : MatchesWhere(tbl_all_surname[i], whereClause)}
        totalCount == Cardinality(matching)
        issued == <<Query(<<"tbl_all_surname.count">>, whereClause),
                    Query(<<"tbl_all_surname.findMany">>, whereClause)>>
    IN  IF ~assemblyValidation.isValid
        THEN {Outcome(Response(400, [success |-> FALSE, message |-> assemblyValidation.error]),
                      <<"getSurnames">>, <<>>)}
        ELSE IF ~paginationValidation.isValid
        THEN {Outcome(Response(400, [success |-> FALSE, message |-> paginationValidation.error]),
                      <<"getSurnames">>, <<>>)}
        ELSE { Outcome(Response(200,
                          [success |-> TRUE, count |-> totalCount,
                           totalPages |-> Ceil(totalCount, limitNum),
                           currentPage |-> pageNum,
                           data |-> LET page == Page(found, skip, limitNum)
                                    IN  [k \in 1..Len(page) |-> Selected(page[k])]]),
                       <<"getSurnames">>, issued)
               : found \in OrderedBy(matching, CountNumDesc) }

MaxSearchRows == 3     \* most rows of the surname table during a search

SearchRows == {SurnameRow(<<"A">>, <<"x">>, <<"s">>, a, n) : a \in AssemblyNos, n \in CountNums}

PopulateSearch ==
    \E r \in SearchRows :
        /\ Idle
        /\ CanAppend(tbl_all_surname, r, MaxSearchRows)
        /\ tbl_all_surname' = Append(tbl_all_surname, r)
        /\ UNCHANGED <<assembly_vandan, election_results_col, party_position,
                       req, res, called, queries>>

SearchBodies ==
    [assembly_id : {Undefined, JStr(All), JStr(<<"1">>), JStr(<<"2">>),
                    JStr(<<"1", ",", "2">>), JStr(<<"a">>), JNum(2)},
     page : {Undefined, JStr(<<"1">>), JStr(<<"2">>), JNum(3), JStr(<<"0">>)},
     limit : {Undefined, JStr(<<"1">>), JNum(2), JStr(<<"0">>)}]

PostSearch ==
    \E body \in SearchBodies :
        Idle /\ Answer("POST /search", body, getSurnames(body))

NextSearch ==
    \/ PopulateSearch
    \/ PostSearch
    \/ Complete

SpecSearch == InitStats /\ [][NextSearch]_vars

(***************************************************************************)
(* C7.  A 200 response of POST /search with page p and limit l holds       *)
(* exactly the rows at positions (p-1)*l+1 .. p*l of the assembly-filtered *)
(* set sorted by count_num descending, count is the size of that set and   *)
(* totalPages is ceil(count / l).                                          *)
(***************************************************************************)
\* the assemblies a validated assembly_id names; {} stands for no restriction
NamedAssemblies(assembly_id) ==
    IF Absent(assembly_id) \/ IsAll(assembly_id) THEN {}
    ELSE IF assembly_id.t = "number" THEN {assembly_id.n}
    ELSE {DecVal(trim(split(assembly_id.s)[i])) : i \in 1..Len(split(assembly_id.s))}

RowsOfNamed(assembly_id) ==
    {i \in DOMAIN tbl_all_surname :
        NamedAssemblies(assembly_id) # {} =>
            tbl_all_surname[i].assembly_no \in NamedAssemblies(assembly_id)}

RequestedPage(body) == IF Absent(body.page) THEN 1 ELSE IntegerOf(body.page)

RequestedLimit(body) == IF Absent(body.limit) THEN 100 ELSE IntegerOf(body.limit)

IsPageOf(body, response) ==
    LET p == RequestedPage(body)
        l == RequestedLimit(body)
        F == RowsOfNamed(body.assembly_id)
        first == (p - 1) * l + 1
        last == IF p * l < Cardinality(F) THEN p * l ELSE Cardinality(F)
    IN  /\ response.count = Cardinality(F)
        /\ response.totalPages = Ceil(Cardinality(F), l)
        /\ \E sorted \in OrderedBy(F, CountNumDesc) :
              /\ Len(response.data) = (IF last >= first THEN last - first + 1 ELSE 0)
              /\ \A k \in 1..Len(response.data) :
                    /\ response.data[k].id = sorted[first + k - 1]
                    /\ response.data[k].count_num = tbl_all_surname[sorted[first + k - 1]].count_num
                    /\ response.data[k].assembly_no = tbl_all_surname[sorted[first + k - 1]].assembly_no

C7_SearchReturnsRequestedPage ==
    (req.op = "POST /search" /\ res.status = 200) => IsPageOf(req.query, res.body)

(***************************************************************************)
(* GET /details: constituency-wise rows of a party, year and election type *)
(***************************************************************************)
BJP == <<"B", "J", "P">>
INC == <<"I", "N", "C">>

YearColumns ==
    <<"ele_ae_2008", "ele_pe_2009", "ele_ae_2013", "ele_pe_2014", "ele_ae_2018", "ele_pe_2019">>

\* a row of tbl_result_party_position / tbl_result_party_position_pe: the party
\* holding `position` in constituency ac_no at each election
PartyPositionRow(ac_no, position, winners) ==
    [ac_no |-> ac_no, position |-> position,
     ele_ae_2008 |-> winners[1], ele_pe_2009 |-> winners[2], ele_ae_2013 |-> winners[3],
     ele_pe_2014 |-> winners[4], ele_ae_2018 |-> winners[5], ele_pe_2019 |-> winners[6]]

\* the assembly_paper table, which the endpoint only reads
assembly_paper == <<[assembly_id |-> 1, assembly_name |-> "P1"]>>

\* the map with two columns exchanged
yearColumnMapExchanged ==
    (<<"2", "0", "0", "8">> :> "ele_ae_2008") @@ (<<"2", "0", "0", "9">> :> "ele_pe_2014") @@
    (<<"2", "0", "1", "3">> :> "ele_ae_2013") @@ (<<"2", "0", "1", "4">> :> "ele_pe_2009") @@
    (<<"2", "0", "1", "8">> :> "ele_ae_2018") @@ (<<"2", "0", "1", "9">> :> "ele_pe_2019")

\* const yearColumnMap = { '2008': 'ele_ae_2008', ... }
yearColumnMap ==
    (<<"2", "0", "0", "8">> :> "ele_ae_2008") @@ (<<"2", "0", "0", "9">> :> "ele_pe_2009") @@
    (<<"2", "0", "1", "3">> :> "ele_ae_2013") @@ (<<"2", "0", "1", "4">> :> "ele_pe_2014") @@
    (<<"2", "0", "1", "8">> :> "ele_ae_2018") @@ (<<"2", "0", "1", "9">> :> "ele_pe_2019")

\* property names every object literal inherits from Object.prototype
ObjectPrototypeKeys ==
    {<<"c", "o", "n", "s", "t", "r", "u", "c", "t", "o", "r">>,
     <<"t", "o", "S", "t", "r", "i", "n", "g">>,
     <<"v", "a", "l", "u", "e", "O", "f">>,
     <<"h", "a", "s", "O", "w", "n", "P", "r", "o", "p", "e", "r", "t", "y">>}

\* map[key]: an own property, else an inherited one (a function), else undefined
PropertyOf(map, key) ==
    IF String(key) \in DOMAIN map THEN [kind |-> "string", name |-> map[String(key)]]
    ELSE IF String(key) \in ObjectPrototypeKeys THEN [kind |-> "function", name |-> "function"]
    ELSE [kind |-> "undefined", name |-> ""]

\* the position table an election type selects
TableOf(electionType) ==
    IF toUpperCase(electionType.s) = <<"A", "C">> THEN "AC" ELSE "PE"

tableName(table) ==
    IF table = "AC" THEN "tbl_result_party_position" ELSE "tbl_result_party_position_pe"

RawQuery(table, column, position, party) ==
    [sql |-> <<"SELECT p.*, a.assembly_id, a.assembly_name", tableName(table), column>>,
     position |-> position, party |-> party]

\* ORDER BY p.ac_no ASC over row numbers of one table
AcNoAsc(table) == [i, j \in DOMAIN party_position[table] |->
                      party_position[table][i].ac_no <= party_position[table][j].ac_no]

\* LEFT JOIN assembly_paper a ON p.ac_no = a.assembly_id: one result row per
\* matching assembly, one with NULLs when there is none
Joined(table, i) ==
    LET p == party_position[table][i]
        matches == {k \in DOMAIN assembly_paper : assembly_paper[k].assembly_id = p.ac_no}
    IN  IF matches = {}
        THEN {[id |-> i, p |-> p, assembly_id |-> Null, assembly_name |-> "NULL"]}
        ELSE {[id |-> i, p |-> p, assembly_id |-> <<assembly_paper[k].assembly_id>>,
               assembly_name |-> assembly_paper[k].assembly_name] : k \in matches}

InternalServerError == [success |-> FALSE, message |-> "Internal server error"]

getPositionDetailsByParty(query) ==
    LET position == query.position
        party == query.party
        year == query.year
        electionType == query.electionType
        columnName == PropertyOf(yearColumnMap, year)
        me == <<"getPositionDetailsByParty">>
    IN  IF ~Truthy(position) \/ ~Truthy(party) \/ ~Truthy(year) \/ ~Truthy(electionType)
        THEN {Outcome(Response(400,
                  [success |-> FALSE,
                   message |-> "Position, party, year, and electionType are required"]),
                  me, <<>>)}
        ELSE IF columnName.kind = "undefined"
        THEN {Outcome(Response(400,
                  [success |-> FALSE, message |-> <<"Invalid year: ", String(year)>>]),
                  me, <<>>)}
        ELSE IF ~HasStringMethods(electionType) \/ ~HasStringMethods(party)
        THEN {Outcome(Response(500, InternalServerError), me, <<>>)}
        ELSE LET table == TableOf(electionType)
                 wanted == parseInt(position)
                 upper == toUpperCase(party.s)
                 issued == <<RawQuery(table, columnName.name, wanted, upper)>>
                 failed == Outcome(Response(500, InternalServerError), me, issued)
                 notFound == Outcome(Response(404,
                                 [success |-> FALSE,
                                  message |-> <<"No detailed results found for ", party.s,
                                                " in ", String(year)>>,
                                  data |-> <<>>]), me, issued)
             IN  IF columnName.kind = "function"
                 THEN \* the text of a function is no column: the statement is rejected
                      {failed}
                 ELSE IF wanted.nan
                 THEN \* NaN as a bound value: it matches no row, or the driver rejects it
                      {notFound, failed}
                 ELSE LET matching ==
                              {i \in DOMAIN party_position[table] :
                                  /\ party_position[table][i].position = wanted.n
                                  /\ party_position[table][i][columnName.name] = upper}
                      IN  IF matching = {} THEN {notFound}
                          ELSE { Outcome(Response(200,
                                    [success |-> TRUE,
                                     message |-> "Detailed position data fetched successfully",
                                     data |-> [position |-> position, party |-> party,
                                               year |-> year, electionType |-> electionType,
                                               constituencies |->
                                                   [k \in 1..Len(found) |->
                                                       CHOOSE row \in Joined(table, found[k]) : TRUE]]]),
                                    me, issued)
                                 : found \in OrderedBy(matching, AcNoAsc(table)) }

MaxDetailRows == 2     \* most rows of the two position tables together

\* sample rows: BJP holds the position at one election only, INC at the others
PartyPositionRows ==
    {PartyPositionRow(ac, pos, [c \in 1..6 |-> IF c = only THEN BJP ELSE INC]) :
        ac \in AssemblyNos, pos \in {1}, only \in 1..6}
    \cup {PartyPositionRow(1, 2, [c \in 1..6 |-> IF c = 1 THEN BJP ELSE INC])}

PartyPositionRank(r) ==
    (r.position * 10 + r.ac_no) * 10 + (CHOOSE c \in 1..6 : r[YearColumns[c]] = BJP)

PopulateDetails ==
    \E table \in {"AC", "PE"}, r \in PartyPositionRows :
        /\ Idle
        /\ Len(party_position.AC) + Len(party_position.PE) < MaxDetailRows
        /\ table = "AC" => party_position.PE = <<>>
        /\ party_position[table] # <<>> =>
              PartyPositionRank(party_position[table][Len(party_position[table])])
                  >= PartyPositionRank(r)
        /\ party_position' = [party_position EXCEPT ![table] = Append(@, r)]
        /\ UNCHANGED <<tbl_all_surname, assembly_vandan, election_results_col,
                       req, res, called, queries>>

Year2008 == <<"2", "0", "0", "8">>

DetailsYears ==
    {Undefined, JStr(Year2008), JStr(<<"2", "0", "0", "9">>), JStr(<<"2", "0", "1", "3">>),
     JStr(<<"2", "0", "1", "4">>), JStr(<<"2", "0", "1", "8">>), JStr(<<"2", "0", "1", "9">>),
     JStr(<<"2", "0", "2", "5">>),
     JStr(<<"c", "o", "n", "s", "t", "r", "u", "c", "t", "o", "r">>),
     JStr(<<"t", "o", "S", "t", "r", "i", "n", "g">>)}

DetailsElectionTypes ==
    {Undefined, JStr(<<"A", "C">>), JStr(<<"a", "c">>), JStr(<<"P", "E">>), JStr(<<"X", "X">>)}

DetailsQuery(position, party, year, electionType) ==
    [position |-> position, party |-> party, year |-> year, electionType |-> electionType]

\* every year and election type for one position and party; every position and
\* party for one year and election type; requests with several parameters missing
DetailsQueries ==
    {DetailsQuery(JStr(<<"1">>), JStr(<<"b", "j", "p">>), y, e) :
        y \in DetailsYears, e \in DetailsElectionTypes}
    \cup {DetailsQuery(p, q, JStr(Year2008), JStr(<<"A", "C">>)) :
            p \in {Undefined, JStr(<<>>), JStr(<<"1">>), JStr(<<"2">>), JStr(<<"x">>)},
            q \in {Undefined, JStr(<<"b", "j", "p">>), JStr(INC)}}
    \cup {DetailsQuery(p, Undefined, y, Undefined) :
            p \in {Undefined, JStr(<<"1">>)},
            y \in {Undefined, JStr(<<"2", "0", "2", "5">>),
                   JStr(<<"t", "o", "S", "t", "r", "i", "n", "g">>)}}

GetDetails ==
    \E query \in DetailsQueries :
        Idle /\ Answer("GET /details", query, getPositionDetailsByParty(query))

NextDetails ==
    \/ PopulateDetails
    \/ GetDetails
    \/ Complete

SpecDetails == Init /\ [][NextDetails]_vars

(***************************************************************************)
(* C8.  /details queries the column the fixed table assigns to the year    *)
(* (2008 -> ele_ae_2008, 2009 -> ele_pe_2009, 2013 -> ele_ae_2013,         *)
(* 2014 -> ele_pe_2014, 2018 -> ele_ae_2018, 2019 -> ele_pe_2019), on the  *)
(* AC table for electionType AC and on the PE table for PE, and returns    *)
(* the rows whose position matches and whose year column equals the        *)
(* upper-cased party, ordered by constituency number ascending.            *)
(***************************************************************************)
MappedYears == {<<"2", "0", "0", "8">>, <<"2", "0", "0", "9">>, <<"2", "0", "1", "3">>, <<"2", "0", "1", "4">>, <<"2", "0", "1", "8">>, <<"2", "0", "1", "9">>}

ColumnOfYear(y) ==
    CASE y = <<"2", "0", "0", "8">> -> "ele_ae_2008"
      [] y = <<"2", "0", "0", "9">> -> "ele_pe_2009"
      [] y = <<"2", "0", "1", "3">> -> "ele_ae_2013"
      [] y = <<"2", "0", "1", "4">> -> "ele_pe_2014"
      [] y = <<"2", "0", "1", "8">> -> "ele_ae_2018"
      [] y = <<"2", "0", "1", "9">> -> "ele_pe_2019"

NamesElectionType(query) ==
    /\ query.electionType.t = "string"
    /\ toUpperCase(query.electionType.s) \in {<<"A", "C">>, <<"P", "E">>}

ExpectedConstituencies(query) ==
    LET table == IF toUpperCase(query.electionType.s) = <<"A", "C">> THEN "AC" ELSE "PE"
    IN  {i \in DOMAIN party_position[table] :
            /\ party_position[table][i].position = IntegerOf(query.position)
            /\ party_position[table][i][ColumnOfYear(query.year.s)] = toUpperCase(query.party.s)}

C8_DetailsQueriesMappedColumn ==
    (/\ req.op = "GET /details"
     /\ res.status \in {200, 404}
     /\ IsInteger(req.query.position)
     /\ NamesElectionType(req.query)) =>
        LET table == IF toUpperCase(req.query.electionType.s) = <<"A", "C">> THEN "AC" ELSE "PE"
            expected == ExpectedConstituencies(req.query)
        IN  /\ Len(queries) = 1
            /\ queries[1].sql[2] = (IF table = "AC" THEN "tbl_result_party_position"
                                    ELSE "tbl_result_party_position_pe")
            /\ queries[1].sql[3] = ColumnOfYear(req.query.year.s)
            /\ (res.status = 200) <=> (expected # {})
            /\ res.status = 200 =>
                  LET rows == res.body.data.constituencies
                  IN  /\ Len(rows) = Cardinality(expected)
                      /\ {rows[k].id : k \in 1..Len(rows)} = expected
                      /\ \A k \in 1..Len(rows) : rows[k].p = party_position[table][rows[k].id]
                      /\ \A k \in 1..(Len(rows) - 1) : rows[k].p.ac_no <= rows[k + 1].p.ac_no

C8_Witness ==
    /\ req.op = "GET /details"
    /\ res.status = 200
    /\ req.query.year = JStr(<<"2", "0", "0", "9">>)
    /\ req.query.electionType = JStr(<<"P", "E">>)
    /\ queries[1].sql[3] = "ele_pe_2009"
    /\ Len(res.body.data.constituencies) = 2
    /\ res.body.data.constituencies[1].p.ac_no < res.body.data.constituencies[2].p.ac_no
    /\ Len(party_position.PE) = 2
    /\ party_position.PE[1].ac_no > party_position.PE[2].ac_no

(***************************************************************************)
(* C9.  A /details request missing any of position, party, year or         *)
(* electionType, or whose year is any string other than the six mapped     *)
(* years (such as "2025", "constructor" or "toString"), is answered with   *)
(* 400, never with 500, and no query is issued for it.                     *)
(***************************************************************************)
MissingOrUnmapped(query) ==
    \/ Absent(query.position)
    \/ Absent(query.party)
    \/ Absent(query.year)
    \/ Absent(query.electionType)
    \/ (query.year.t = "string" /\ query.year.s \notin MappedYears)

C9_DetailsBadRequestIs400 ==
    (req.op = "GET /details" /\ MissingOrUnmapped(req.query)) =>
        (res.status = 400 /\ queries = <<>>)

(***************************************************************************)
(* GET /analytics/:position: seat counts pivoted by party, year and type   *)
(***************************************************************************)
\* a row of election_results_col; a seat column holds a count or NULL
ElectionRow(position, electionname, electionyear, seats) ==
    [position |-> position, electionname |-> electionname, electionyear |-> electionyear,
     bjp_seat |-> seats[1], inc_seat |-> seats[2], bsp_seat |-> seats[3],
     jccj_seat |-> seats[4], ggp_seat |-> seats[5], cpi_seat |-> seats[6],
     aap_seat |-> seats[7], other_seat |-> seats[8]]

parties ==
    <<[name |-> "BJP", key |-> "bjp_seat", color |-> "#FF8C00"],
      [name |-> "INC", key |-> "inc_seat", color |-> "#228B22"],
      [name |-> "BSP", key |-> "bsp_seat", color |-> "#4169E1"],
      [name |-> "JCCJ", key |-> "jccj_seat", color |-> "#FF1493"],
      [name |-> "GGP", key |-> "ggp_seat", color |-> "#9C27B0"],
      [name |-> "CPI", key |-> "cpi_seat", color |-> "#F44336"],
      [name |-> "AAP", key |-> "aap_seat", color |-> "#00BCD4"],
      [name |-> "OTHER", key |-> "other_seat", color |-> "#696969"]>>

\* a number as JSON carries it: NaN is written as null
Json(n) == IF n.nan THEN JsNull ELSE JNum(n.n)

\* the conversion with only NULL turned into null: a count of 0 stays 0
seatOfKeepingZero(seatValue) == IF seatValue = JsNull THEN JsNull ELSE Json(parseInt(seatValue))

\* seatValue ? parseInt(seatValue) : null
seatOf(seatValue) == IF Truthy(seatValue) THEN Json(parseInt(seatValue)) ELSE JsNull

\* data.forEach(result => years[result.electionyear] = ...): a later row of the
\* same year replaces an earlier one
RECURSIVE yearsOf(_, _)
yearsOf(data, key) ==
    IF data = <<>> THEN <<>>
    ELSE LET result == data[Len(data)]
         IN  (result.electionyear :> seatOf(result[key]))
                 @@ yearsOf(SubSeq(data, 1, Len(data) - 1), key)

transformData(data) ==
    [k \in 1..Len(parties) |->
        [party |-> parties[k].name, color |-> parties[k].color,
         years |-> yearsOf(data, parties[k].key)]]

\* results.filter(r => r.electionname.toUpperCase() === name)
RECURSIVE filterByName(_, _)
filterByName(results, name) ==
    IF results = <<>> THEN <<>>
    ELSE IF toUpperCase(Head(results).electionname) = name
    THEN <<Head(results)>> \o filterByName(Tail(results), name)
    ELSE filterByName(Tail(results), name)

\* the order of two decimal strings by their UTF-16 code units
RECURSIVE StringLeq(_, _)
StringLeq(s, t) ==
    IF s = <<>> THEN TRUE
    ELSE IF t = <<>> THEN FALSE
    ELSE IF Head(s) = Head(t) THEN StringLeq(Tail(s), Tail(t))
    ELSE DigitVal(Head(s)) < DigitVal(Head(t))

\* the distinct years left in descending order
RECURSIVE sortedYearsDescending(_)
sortedYearsDescending(S) ==
    IF S = {} THEN <<>>
    ELSE LET most == CHOOSE y \in S : \A z \in S : StringLeq(DecStr(z), DecStr(y))
         IN  <<most>> \o sortedYearsDescending(S \ {most})

\* [...new Set(years)].sort(): without a comparator the elements are ordered by
\* their string forms
RECURSIVE sortedYears(_)
sortedYears(S) ==
    IF S = {} THEN <<>>
    ELSE LET least == CHOOSE y \in S : \A z \in S : StringLeq(DecStr(y), DecStr(z))
         IN  <<least>> \o sortedYears(S \ {least})

ElectionYearAsc ==
    [i, j \in DOMAIN election_results_col |->
        election_results_col[i].electionyear <= election_results_col[j].electionyear]

getPositionWiseAnalytics(params) ==
    LET position == params.position
        me == <<"getPositionWiseAnalytics">>
        where == [position |-> position]
        issued == <<Query(<<"election_results_col.findMany">>, where)>>
        matching == {i \in DOMAIN election_results_col :
                        election_results_col[i].position = position.s}
    IN  IF ~Truthy(position)
        THEN {Outcome(Response(400, [success |-> FALSE, message |-> "Position is required"]),
                      me, <<>>)}
        ELSE IF matching = {}
        THEN {Outcome(Response(404, [success |-> FALSE,
                                     message |-> <<"No results found for position: ", position.s>>]),
                      me, issued)}
        ELSE { LET results == [k \in 1..Len(found) |-> election_results_col[found[k]]]
               IN  Outcome(Response(200,
                      [success |-> TRUE,
                       message |-> "Position-wise analytics fetched successfully",
                       data |-> [position |-> toUpperCase(position.s),
                                 assembly |-> transformData(filterByName(results, <<"A", "C">>)),
                                 parliament |-> transformData(filterByName(results, <<"P", "E">>)),
                                 years |-> sortedYears({results[k].electionyear :
                                                          k \in 1..Len(results)})]]),
                      me, issued)
               : found \in OrderedBy(matching, ElectionYearAsc) }

MaxResultRows == 3     \* most rows of the election-result table

ElectionYears == {2008, 2013}

ElectionNames == <<<<"A", "C">>, <<"P", "E">>, <<"a", "c">>>>

ElectionPositions == <<<<"p">>, <<"q">>>>

SeatPatterns ==
    <<<<JNum(45), JsNull, JNum(0), JsNull, JNum(0), JsNull, JNum(0), JsNull>>,
      <<JNum(1), JNum(2), JNum(3), JNum(4), JNum(5), JNum(6), JNum(7), JNum(8)>>,
      <<JsNull, JNum(7), JsNull, JNum(0), JsNull, JNum(0), JsNull, JNum(0)>>>>

ElectionRows ==
    {ElectionRow(ElectionPositions[p], ElectionNames[n], y, SeatPatterns[s]) :
        p \in DOMAIN ElectionPositions, n \in DOMAIN ElectionNames, y \in ElectionYears,
        s \in DOMAIN SeatPatterns}

RankIn(list, v) == CHOOSE i \in DOMAIN list : list[i] = v

ElectionRank(r) ==
    (RankIn(ElectionPositions, r.position) * 10000 + r.electionyear) * 10
        + RankIn(ElectionNames, r.electionname)

\* at most one row per (position, electionyear, electionname); the store compares
\* names without regard to case
SameElection(a, b) ==
    /\ a.position = b.position
    /\ a.electionyear = b.electionyear
    /\ toUpperCase(a.electionname) = toUpperCase(b.electionname)

PopulateAnalytics ==
    \E r \in ElectionRows :
        /\ Idle
        /\ Len(election_results_col) < MaxResultRows
        /\ \A i \in DOMAIN election_results_col :
              /\ ~SameElection(election_results_col[i], r)
              /\ ElectionRank(election_results_col[i]) > ElectionRank(r)
        /\ election_results_col' = Append(election_results_col, r)
        /\ UNCHANGED <<tbl_all_surname, assembly_vandan, party_position,
                       req, res, called, queries>>

AnalyticsParams == {[position |-> JStr(s)] : s \in {<<"p">>, <<"q">>, <<"r">>}}

GetAnalytics ==
    \E params \in AnalyticsParams :
        Idle /\ Answer("GET /analytics/:position", params, getPositionWiseAnalytics(params))

NextAnalytics ==
    \/ PopulateAnalytics
    \/ GetAnalytics
    \/ Complete

SpecAnalytics == Init /\ [][NextAnalytics]_vars

(***************************************************************************)
(* C10.  /analytics/:position partitions the rows of the position by       *)
(* electionname into AC and PE; in each partition every tracked party      *)
(* (BJP, INC, BSP, JCCJ, GGP, CPI, AAP, OTHER) has one series mapping the  *)
(* year of every row of the partition to that row's seat count for the     *)
(* party, and to null when the seat value is null, missing or zero.        *)
(***************************************************************************)
TrackedParties == <<"BJP", "INC", "BSP", "JCCJ", "GGP", "CPI", "AAP", "OTHER">>

TrackedSeats ==
    <<"bjp_seat", "inc_seat", "bsp_seat", "jccj_seat", "ggp_seat", "cpi_seat",
      "aap_seat", "other_seat">>

ClaimedSeat(v) == IF v = JsNull \/ v = JNum(0) THEN JsNull ELSE v

PartitionRows(position, name) ==
    {i \in DOMAIN election_results_col :
        /\ election_results_col[i].position = position
        /\ toUpperCase(election_results_col[i].electionname) = name}

IsPivotOf(series, rows) ==
    /\ Len(series) = Len(TrackedParties)
    /\ \A k \in 1..Len(TrackedParties) :
          /\ series[k].party = TrackedParties[k]
          /\ DOMAIN series[k].years = {election_results_col[i].electionyear : i \in rows}
          /\ \A i \in rows :
                series[k].years[election_results_col[i].electionyear]
                    = ClaimedSeat(election_results_col[i][TrackedSeats[k]])

HandlerOutcomes(op, query) ==
    CASE op = "POST /search" -> getSurnames(query)
      [] op = "GET /category" -> getAllCategoryStatus(query)
      [] op = "GET /caste" -> getAllCasteStatus(query)
      [] op = "GET /surname-similar" -> getAllSurnameSimilarStats(query)
      [] op = "GET /details" -> getPositionDetailsByParty(query)
      [] op = "GET /analytics/:position" -> getPositionWiseAnalytics(query)

ReadOps ==
    StatsOps \cup {"POST /search", "GET /details", "GET /analytics/:position"}

C11_RepeatedReadIsIdentical ==
    (req.op \in ReadOps /\ res.status = 200) =>
        \A again \in HandlerOutcomes(req.op, req.query) : again.res = res

(***************************************************************************)
(* C12.  A well-formed request that matches zero rows is answered with     *)
(* status 404 and a payload that still carries an empty data shape; this   *)
(* holds for the surname aggregation endpoints as for the others.          *)
(***************************************************************************)
DimensionOf(op) ==
    CASE op = "GET /category" -> "surname_category"
      [] op = "GET /caste" -> "surname_caste"
      [] op = "GET /surname-similar" -> "surname_similar"

\* no row of the requested assemblies carries a value of the dimension
MatchesZeroRows(op, query) ==
    \A i \in RowsOfNamed(query.assembly_id) :
        tbl_all_surname[i][DimensionOf(op)] \in {Null, <<>>}

C12_ZeroRowsIs404 ==
    (/\ req.op \in StatsOps
     /\ res.status \notin {400, 500}
     /\ MatchesZeroRows(req.op, req.query)) =>
        (res.status = 404 /\ "data" \in DOMAIN res.body)

(***************************************************************************)
(* C13.  In separate mode the response is a single object {assembly,       *)
(* stats} when assembly_id is exactly one explicit id, and in every other  *)
(* case an array with one element per assembly, in ascending assembly      *)
(* number; an absent filter or "all" that matches one assembly still       *)
(* yields a one-element array.                                             *)
(***************************************************************************)
NamesOneExplicitId(query) ==
    /\ ~Absent(query.assembly_id)
    /\ ~IsAll(query.assembly_id)
    /\ ~NamesSeveral(query)

\* the assemblies holding a row that carries a value of the dimension
AssembliesWithValues(op, query) ==
    {tbl_all_surname[i].assembly_no :
        i \in {k \in RowsOfNamed(query.assembly_id) :
                  tbl_all_surname[k][DimensionOf(op)] \notin {Null, <<>>}}}

C13_SeparateShape ==
    (/\ req.op \in StatsOps
     /\ res.status = 200
     /\ called[Len(called)] = SeparateViewOf(req.op)) =>
        IF NamesOneExplicitId(req.query)
        THEN DOMAIN res.body = {"assembly", "stats"}
        ELSE /\ DOMAIN res.body = {"items"}
             /\ Len(res.body.items) = Cardinality(AssembliesWithValues(req.op, req.query))
             /\ \A k \in 1..Len(res.body.items) :
                   /\ DOMAIN res.body.items[k] = {"assembly", "stats"}
                   /\ res.body.items[k].assembly.assembly_id
                          \in AssembliesWithValues(req.op, req.query)
             /\ \A k \in 1..(Len(res.body.items) - 1) :
                   res.body.items[k].assembly.assembly_id
                       < res.body.items[k + 1].assembly.assembly_id

\* "all" matching one assembly: still an array
C13_Witness ==
    /\ req.op \in StatsOps
    /\ res.status = 200
    /\ req.query.assembly_id = JStr(All)
    /\ called[Len(called)] = SeparateViewOf(req.op)
    /\ Len(tbl_all_surname) = 2
    /\ "items" \in DOMAIN res.body
    /\ Len(res.body.items) = 1
    /\ res.body.items[1].assembly.assembly_id = 2

(***************************************************************************)
(* C14.  Every combined-mode response, for each of the three dimensions,   *)
(* is one object with isCombined true, the synthetic assembly {id: 0,      *)
(* assembly_id: 0, assembly_name: "All Assemblies Combined"}, and stats    *)
(* holding one entry per distinct non-null, non-empty dimension value of   *)
(* the filtered assembly set, in non-increasing order of total_count.      *)
(***************************************************************************)
ValuesOfDimension(op, query) ==
    {tbl_all_surname[i][DimensionOf(op)] : i \in RowsOfNamed(query.assembly_id)}
        \ {Null, <<>>}

C14_CombinedShape ==
    (/\ req.op \in StatsOps
     /\ res.status = 200
     /\ called[Len(called)] = CombinedViewOf(req.op)) =>
        /\ res.body.isCombined = TRUE
        /\ res.body.assembly =
              [id |-> 0, assembly_id |-> 0, assembly_name |-> "All Assemblies Combined"]
        /\ Len(res.body.stats) = Cardinality(ValuesOfDimension(req.op, req.query))
        /\ {res.body.stats[k][DimensionOf(req.op)] : k \in 1..Len(res.body.stats)}
              = ValuesOfDimension(req.op, req.query)
        /\ \A k \in 1..(Len(res.body.stats) - 1) :
              res.body.stats[k].total_count >= res.body.stats[k + 1].total_count

C14_Witness ==
    /\ req.op = "GET /category"
    /\ res.status = 200
    /\ called[Len(called)] = CombinedViewOf(req.op)
    /\ Len(res.body.stats) = 2
    /\ res.body.stats[1].total_count > res.body.stats[2].total_count

(***************************************************************************)
(* C15.  validateStringParam rejects an absent, empty or whitespace-only   *)
(* string when the parameter is required, rejects every string longer than *)
(* 255, rejects every string containing a quote, a double dash, a          *)
(* semicolon or one of the denylisted keywords (case-insensitive, as whole *)
(* words), and accepts every other string, returning it trimmed.           *)
(* As amended: the length that counts is that of the trimmed string, and   *)
(* strings containing "||" or "*" are rejected as well.                    *)
(***************************************************************************)
IsText(x) == x = Undefined \/ x.t = "string"

TextOf(x) == IF x = Undefined THEN <<>> ELSE x.s

ContainsKeyword(s) ==
    \E kw \in { <<"o", "r">>, <<"a", "n", "d">>, <<"u", "n", "i", "o", "n">>,
                <<"s", "e", "l", "e", "c", "t">>, <<"d", "r", "o", "p">>,
                <<"i", "n", "s", "e", "r", "t">>, <<"u", "p", "d", "a", "t", "e">>,
                <<"d", "e", "l", "e", "t", "e">> } : HasWord(s, kw)

ClaimedDenied(s) ==
    \/ includes(s, <<"'">>)
    \/ includes(s, <<"-", "-">>)
    \/ includes(s, <<";">>)
    \/ ContainsKeyword(s)

\* the verdict the claim prescribes, given which strings are too long or denied
StringVerdict(tooLong, denied) ==
    IF trim(TextOf(req.param)) = <<>>
    THEN IF req.required THEN ~res.isValid ELSE res.isValid /\ res.value = <<>>
    ELSE IF tooLong \/ denied THEN ~res.isValid
    ELSE res.isValid /\ res.value = trim(TextOf(req.param))

C15_StringParamAsClaimed ==
    (req.op = "validateStringParam" /\ IsText(req.param)) =>
        StringVerdict(Len(TextOf(req.param)) > 255, ClaimedDenied(TextOf(req.param)))

C15_StringParamAmended ==
    (req.op = "validateStringParam" /\ IsText(req.param)) =>
        StringVerdict(Len(trim(TextOf(req.param))) > 255,
                      \/ ClaimedDenied(TextOf(req.param))
                      \/ includes(TextOf(req.param), <<"|", "|">>)
                      \/ includes(TextOf(req.param), <<"*">>))

C15_Witness ==
    /\ req.op = "validateStringParam"
    /\ req.param = JStr(<<"a", "|", "|", "a">>)
    /\ ~res.isValid

(***************************************************************************)
(* C16.  validateViewMode returns "separate" when the parameter is absent, *)
(* returns "separate" or "combined" for any input that equals one of them  *)
(* after trimming and lower-casing, and rejects every other input.         *)
(***************************************************************************)
C16_ViewModeAsClaimed ==
    req.op = "validateViewMode" =>
        LET normalized == toLowerCase(trim(String(req.view_mode)))
        IN  IF Absent(req.view_mode)
            THEN res.isValid /\ res.value = <<"s", "e", "p", "a", "r", "a", "t", "e">>
            ELSE IF normalized \in {<<"s", "e", "p", "a", "r", "a", "t", "e">>,
                                    <<"c", "o", "m", "b", "i", "n", "e", "d">>}
            THEN res.isValid /\ res.value = normalized
            ELSE ~res.isValid

C16_Witness ==
    /\ req.op = "validateViewMode"
    /\ req.view_mode = JStr(<<" ", "c", "o", "m", "b", "i", "n", "e", "d", " ">>)
    /\ res.isValid
    /\ res.value = <<"c", "o", "m", "b", "i", "n", "e", "d">>

OnlySurnames ==
    party_position.AC = <<>> /\ party_position.PE = <<>> /\ election_results_col = <<>>

OnlyPositions == tbl_all_surname = <<>> /\ election_results_col = <<>>

OnlyResults ==
    tbl_all_surname = <<>> /\ party_position.AC = <<>> /\ party_position.PE = <<>>

NextHandlers ==
    \/ (OnlySurnames /\ PopulateSearch)
    \/ (OnlySurnames /\ PostSearch)
    \/ (OnlySurnames /\ GetCategory)
    \/ (OnlySurnames /\ GetCaste)
    \/ (OnlySurnames /\ GetSurnameSimilar)
    \/ (OnlyPositions /\ PopulateDetails)
    \/ (OnlyPositions /\ GetDetails)
    \/ (OnlyResults /\ PopulateAnalytics)
    \/ (OnlyResults /\ GetAnalytics)
    \/ Complete

SpecHandlers == InitStats /\ [][NextHandlers]_vars

BuildFilterInputs ==
    {x \in AssemblyIdInputs : IsText(x)}
    \cup {JStr(<<"1", "2", "a", "b", "c">>), JStr(<<"1", ",", "2", "x">>),
          JStr(<<"1", "2">>), JStr(<<"1", ",", "2">>), JStr(<<" ", "1", " ", ",", "2", " ">>)}

CallBuildAssemblyFilter ==
    \E assembly_id \in BuildFilterInputs :
        /\ Idle
        /\ req' = [op |-> "buildAssemblyFilter", assembly_id |-> assembly_id]
        /\ res' = buildAssemblyFilter(assembly_id)
        /\ UNCHANGED <<tables, called, queries>>

NextFilter ==
    \/ CallBuildAssemblyFilter
    \/ Complete

SpecFilter == Init /\ [][NextFilter]_vars

\* the tokens of a comma-separated list, each trimmed
TokensOf(s) == [i \in 1..Len(split(s)) |-> trim(split(s)[i])]

\* the filter the documentation describes for an input
DescribedFilter(x) ==
    IF TextOf(x) = <<>> \/ TextOf(x) = All THEN NoFilter
    ELSE LET tokens == TokensOf(x.s)
         IN  IF \E i \in 1..Len(tokens) : ~AllDigits(tokens[i]) THEN FilterError
             ELSE IF Len(tokens) = 1 THEN EqFilter(DecVal(tokens[1]))
             ELSE InFilter([i \in 1..Len(tokens) |-> DecVal(tokens[i])])

(***************************************************************************)
(* C19.  buildAssemblyFilter returns no constraint for an absent value or  *)
(* "all", "equals N" for a single id, "member of {N1..Nk}" for a comma     *)
(* list, and raises 'Invalid assembly ID format' for every input in which  *)
(* some token is not a well-formed decimal integer, such as "12abc" or     *)
(* "1,2x".                                                                 *)
(***************************************************************************)
C19_FilterRejectsMalformedTokens ==
    req.op = "buildAssemblyFilter" => res = DescribedFilter(req.assembly_id)

\* the same, for the inputs whose tokens are either well-formed or have no leading digits
C19_FilterOnCleanTokens ==
    (/\ req.op = "buildAssemblyFilter"
     /\ \A i \in 1..Len(TokensOf(TextOf(req.assembly_id))) :
            LET token == TokensOf(TextOf(req.assembly_id))[i]
            IN  AllDigits(token) \/ parseIntStr(token).nan)
        => res = DescribedFilter(req.assembly_id)

(***************************************************************************)
(* C20.  In separate and combined mode, the breadth metric of every stats  *)
(* entry equals the number of distinct child-dimension values among the    *)
(* rows of its group: total_cast of a category group is the number of      *)
(* distinct castes in that group, total_similar of a caste group is the    *)
(* number of distinct similar-groups in that group, computed over the same *)
(* assembly filter as total_count.                                         *)
(***************************************************************************)
BreadthOps == {"GET /category", "GET /caste"}

ChildDimensionOf(op) ==
    CASE op = "GET /category" -> "surname_caste"
      [] op = "GET /caste" -> "surname_similar"

BreadthNameOf(op) ==
    CASE op = "GET /category" -> "total_cast"
      [] op = "GET /caste" -> "total_similar"

\* the distinct values of a column among the rows S (NULL is the absence of a value)
DistinctValues(S, column) == {tbl_all_surname[i][column] : i \in S} \ {Null}

\* the rows of the requested assemblies whose dimension value is v
GroupOfValue(op, query, v) ==
    {i \in RowsOfNamed(query.assembly_id) : tbl_all_surname[i][DimensionOf(op)] = v}

\* the {assembly, stats} objects of a separate-mode body, unwrapped or not
SeparateItems(body) == IF "items" \in DOMAIN body THEN body.items ELSE <<body>>

C20_BreadthIsDistinctChildren ==
    (req.op \in BreadthOps /\ res.status = 200) =>
        IF called[Len(called)] = CombinedViewOf(req.op)
        THEN \A k \in 1..Len(res.body.stats) :
                LET entry == res.body.stats[k]
                IN  entry[BreadthNameOf(req.op)] =
                        Cardinality(DistinctValues(
                            GroupOfValue(req.op, req.query, entry[DimensionOf(req.op)]),
                            ChildDimensionOf(req.op)))
        ELSE \A k \in 1..Len(SeparateItems(res.body)) :
                LET item == SeparateItems(res.body)[k]
                IN  \A j \in 1..Len(item.stats) :
                        item.stats[j][BreadthNameOf(req.op)] =
                            Cardinality(DistinctValues(
                                {i \in GroupOfValue(req.op, req.query,
                                                    item.stats[j][DimensionOf(req.op)]) :
                                    tbl_all_surname[i].assembly_no = item.assembly.assembly_id},
                                ChildDimensionOf(req.op)))

\* two rows of one category carrying the same caste count as one caste
C20_Witness ==
    /\ req.op = "GET /category"
    /\ res.status = 200
    /\ called[Len(called)] = CombinedViewOf(req.op)
    /\ Len(tbl_all_surname) = 2
    /\ tbl_all_surname[1].surname_category = tbl_all_surname[2].surname_category
    /\ tbl_all_surname[1].surname_caste = tbl_all_surname[2].surname_caste
    /\ tbl_all_surname[1].surname_caste # <<>>
    /\ Len(res.body.stats) = 1
    /\ res.body.stats[1].total_cast = 1
    /\ res.body.stats[1].total_count = 3

\* a caste met in two assemblies has, in each, the similar-groups of that assembly only
C20_WitnessSeparate ==
    /\ req.op = "GET /caste"
    /\ res.status = 200
    /\ called[Len(called)] = SeparateViewOf(req.op)
    /\ "items" \in DOMAIN res.body
    /\ Len(res.body.items) = 2
    /\ tbl_all_surname[1].surname_caste = tbl_all_surname[2].surname_caste
    /\ tbl_all_surname[1].surname_similar = Null
    /\ res.body.items[1].stats[1].total_similar = 0
    /\ res.body.items[2].stats[1].total_similar = 1

(***************************************************************************)
(* C22.  The years field of the /analytics/:position response lists every  *)
(* distinct electionyear of the position's result rows exactly once, in    *)
(* ascending order.                                                        *)
(***************************************************************************)
YearsOfPosition(position) ==
    {election_results_col[i].electionyear :
        i \in {k \in DOMAIN election_results_col :
                  election_results_col[k].position = position}}

C22_YearsSortedDistinct ==
    (req.op = "GET /analytics/:position" /\ res.status = 200) =>
        LET years == res.body.data.years
        IN  /\ {years[k] : k \in 1..Len(years)} = YearsOfPosition(req.query.position.s)
            /\ \A k \in 1..(Len(years) - 1) : years[k] < years[k + 1]

\* three rows of one position over two years
C22_Witness ==
    /\ req.op = "GET /analytics/:position"
    /\ res.status = 200
    /\ Cardinality({i \in DOMAIN election_results_col :
                       election_results_col[i].position = req.query.position.s}) = 3
    /\ res.body.data.years = <<2008, 2013>>

(***************************************************************************)
(* C26.  For POST /search, whenever assembly_id passes validation and is   *)
(* present and not "all", the rows returned and the reported count cover   *)
(* exactly the assemblies named in assembly_id: a request naming several   *)
(* assemblies (e.g. "1,2") is never answered with the rows and count of    *)
(* only one of them.                                                       *)
(***************************************************************************)
C26_SearchCoversNamedAssemblies ==
    (/\ req.op = "POST /search"
     /\ res.status = 200
     /\ ~Absent(req.query.assembly_id)
     /\ ~IsAll(req.query.assembly_id)) =>
        /\ res.body.count = Cardinality(RowsOfNamed(req.query.assembly_id))
        /\ \A k \in 1..Len(res.body.data) :
              res.body.data[k].assembly_no \in NamedAssemblies(req.query.assembly_id)
        /\ (Len(res.body.data) < RequestedLimit(req.query)
                /\ RequestedPage(req.query) = 1) =>
              {res.body.data[k].id : k \in 1..Len(res.body.data)}
                  = RowsOfNamed(req.query.assembly_id)

\* the same, for the requests that name one assembly
C26_SearchCoversOneAssembly ==
    (/\ req.op = "POST /search"
     /\ res.status = 200
     /\ ~Absent(req.query.assembly_id)
     /\ ~IsAll(req.query.assembly_id)
     /\ ~jsIncludesComma(req.query.assembly_id)) =>
        /\ res.body.count = Cardinality(RowsOfNamed(req.query.assembly_id))
        /\ \A k \in 1..Len(res.body.data) :
              res.body.data[k].assembly_no \in NamedAssemblies(req.query.assembly_id)

(***************************************************************************)
(* GET /caste-details and GET /surname-details: the drill-down from a      *)
(* category to its castes and from a caste to its similar-groups           *)
(***************************************************************************)
\* whereClause.assembly_no of the two drill-down controllers
detailsAssemblyFilter(assembly_id) ==
    IF Truthy(assembly_id) /\ ~IsAll(assembly_id)
    THEN IF jsIncludesComma(assembly_id)
         THEN IF ~HasStringMethods(assembly_id) THEN FilterError
              ELSE LET parts == split(assembly_id.s)
                   IN  InFilter([i \in 1..Len(parts) |-> parseIntStr(trim(parts[i])).n])
         ELSE EqFilter(parseInt(assembly_id).n)
    ELSE NoFilter

\* where: { [parent]: name, assembly_no: ... } ; a name that is no string matches no row
DetailRows(parent, name, filter) ==
    {i \in DOMAIN tbl_all_surname :
        /\ name.t = "string"
        /\ tbl_all_surname[i][parent] = name.s
        /\ CASE filter.kind = "in" ->
                    \E k \in 1..Len(filter.ids) : tbl_all_surname[i].assembly_no = filter.ids[k]
             [] filter.kind = "eq" -> tbl_all_surname[i].assembly_no = filter.id
             [] OTHER -> TRUE}

\* the groups with _count in place of _sum
SumByChildCountingRows(child, rows) ==
    { [value |-> v,
       total_count |-> Cardinality({i \in rows : tbl_all_surname[i][child] = v})] :
      v \in {tbl_all_surname[i][child] : i \in rows} }

\* groupBy({ by: [child], where, _sum: { count_num: true } }): NULL is a group of its own
SumByChild(child, rows) ==
    { [value |-> v,
       total_count |-> SumCountNum({i \in rows : tbl_all_surname[i][child] = v})] :
      v \in {tbl_all_surname[i][child] : i \in rows} }

\* the two drill-down controllers share this body
DetailsByParent(name, shape, query) ==
    LET paramName == shape[1]
        parentKey == shape[2]
        parent == shape[3]
        child == shape[4]
        entryKey == shape[5]
        totalKey == shape[6]
        listKey == shape[7]
        failure == shape[8]
        nameValidation == validateStringParam(query[parentKey], paramName, TRUE)
        assemblyValidation == validateAssemblyId(query.assembly_id)
        filter == detailsAssemblyFilter(query.assembly_id)
        whereClause == [parent |-> query[parentKey], assembly_no |-> filter]
        groups == SumByChild(child, DetailRows(parent, query[parentKey], filter))
        issued == <<Query(<<"tbl_all_surname.groupBy", child>>, whereClause)>>
    IN  IF nameValidation.threw
        THEN {Outcome(ServerError(failure, nameValidation.error), <<name>>, <<>>)}
        ELSE IF ~nameValidation.isValid
        THEN {Outcome(Response(400, [error |-> nameValidation.error]), <<name>>, <<>>)}
        ELSE IF ~assemblyValidation.isValid
        THEN {Outcome(BadRequest("Invalid assembly_id", assemblyValidation.error),
                      <<name>>, <<>>)}
        ELSE IF filter.threw
        THEN {Outcome(ServerError(failure, "TypeError: assembly_id.split is not a function"),
                      <<name>>, <<>>)}
        ELSE { Outcome(Response(200,
                          (parentKey :> query[parentKey])
                              @@ (totalKey :> Len(stats))
                              @@ (listKey :> [k \in 1..Len(stats) |->
                                     (entryKey :> stats[k].value)
                                         @@ ("count" :> stats[k].total_count)])),
                       <<name>>, issued)
               : stats \in OrderedBy(groups, StatOrder("total_count DESC", groups)) }

getCasteDetailsByCategory(query) ==
    DetailsByParent("getCasteDetailsByCategory",
                    <<"Category", "category", "surname_category", "surname_caste",
                      "caste_name", "total_castes", "castes", "Failed to fetch caste details">>,
                    query)

getSurnameDetailsByCaste(query) ==
    DetailsByParent("getSurnameDetailsByCaste",
                    <<"Caste", "caste", "surname_caste", "surname_similar",
                      "surname_similar", "total_surnames", "surnames",
                      "Failed to fetch surname details">>,
                    query)

\* the names asked for: present in the dataset, padded with blanks, unknown, absent,
\* denied by the validator, repeated in the query string
DrillNames ==
    {Undefined, JStr(<<"A">>), JStr(<<" ", "A">>), JStr(<<"A", " ">>), JStr(<<"x">>),
     JStr(<<" ", "x", " ">>), JStr(<<"'">>), JArr(<< <<"A">>, <<"x">> >>)}

DrillAssemblyIds == {Undefined, JStr(<<"2">>), JStr(<<"1", ",", "2">>), JStr(<<"a">>)}

GetCasteDetails ==
    \E assembly_id \in DrillAssemblyIds, category \in DrillNames :
        LET query == [assembly_id |-> assembly_id, category |-> category]
        IN  Idle /\ Answer("GET /caste-details", query, getCasteDetailsByCategory(query))

GetSurnameDetails ==
    \E assembly_id \in DrillAssemblyIds, caste \in DrillNames :
        LET query == [assembly_id |-> assembly_id, caste |-> caste]
        IN  Idle /\ Answer("GET /surname-details", query, getSurnameDetailsByCaste(query))

NextDrill ==
    \/ PopulateStats
    \/ GetCasteDetails
    \/ GetSurnameDetails
    \/ Complete

SpecDrill == InitStats /\ [][NextDrill]_vars

DrillOps == {"GET /caste-details", "GET /surname-details"}

ParentKeyOf(op) == IF op = "GET /caste-details" THEN "category" ELSE "caste"
ParentOf(op) == IF op = "GET /caste-details" THEN "surname_category" ELSE "surname_caste"
ChildOf(op) == IF op = "GET /caste-details" THEN "surname_caste" ELSE "surname_similar"
EntryKeyOf(op) == IF op = "GET /caste-details" THEN "caste_name" ELSE "surname_similar"
TotalKeyOf(op) == IF op = "GET /caste-details" THEN "total_castes" ELSE "total_surnames"
ListKeyOf(op) == IF op = "GET /caste-details" THEN "castes" ELSE "surnames"

\* the rows of the requested assemblies whose parent column equals the requested name
RowsOfParent(op, query) ==
    {i \in RowsOfNamed(query.assembly_id) :
        tbl_all_surname[i][ParentOf(op)] = query[ParentKeyOf(op)].s}

(***************************************************************************)
(* C21.  /caste-details (resp. /surname-details) returns one entry per     *)
(* distinct caste (resp. similar-group) among the rows whose category      *)
(* (resp. caste) equals the requested name exactly and whose assembly      *)
(* satisfies the filter (none, one id, or membership in the list); each    *)
(* entry's count is the sum of count_num of its rows, the entries are in   *)
(* non-increasing order of count, and total_castes (resp. total_surnames)  *)
(* is the number of entries.  The rows that carry no caste (resp. no       *)
(* similar-group) form one entry.                                          *)
(***************************************************************************)
C21_DrillDownGroups ==
    (req.op \in DrillOps /\ res.status = 200) =>
        LET entries == res.body[ListKeyOf(req.op)]
            rows == RowsOfParent(req.op, req.query)
            child == ChildOf(req.op)
            key == EntryKeyOf(req.op)
        IN  /\ {entries[k][key] : k \in 1..Len(entries)}
                  = {tbl_all_surname[i][child] : i \in rows}
            /\ Len(entries) = Cardinality({tbl_all_surname[i][child] : i \in rows})
            /\ \A k \in 1..Len(entries) :
                  entries[k].count =
                      SumCountNum({i \in rows : tbl_all_surname[i][child] = entries[k][key]})
            /\ \A k \in 1..(Len(entries) - 1) : entries[k].count >= entries[k + 1].count
            /\ res.body[TotalKeyOf(req.op)] = Len(entries)

\* two castes of one category in the two listed assemblies, the larger first
C21_Witness ==
    /\ req.op = "GET /caste-details"
    /\ res.status = 200
    /\ req.query.assembly_id = JStr(<<"1", ",", "2">>)
    /\ res.body.total_castes = 2
    /\ res.body.castes[1].count > res.body.castes[2].count
    /\ tbl_all_surname[1].assembly_no # tbl_all_surname[2].assembly_no

\* the handler behind each drill-down route
DrillOutcomes(op, query) ==
    IF op = "GET /caste-details" THEN getCasteDetailsByCategory(query)
    ELSE getSurnameDetailsByCaste(query)

\* the statistics endpoint one level up, asked for the combined view of the same filter
CombinedOneLevelUp(op, query) ==
    LET above == [assembly_id |-> query.assembly_id, view_mode |-> JStr(Combined)]
    IN  IF op = "GET /caste-details" THEN getAllCategoryStatus(above)
        ELSE getAllCasteStatus(above)

RECURSIVE SumOfCounts(_)
SumOfCounts(entries) ==
    IF entries = <<>> THEN 0 ELSE Head(entries).count + SumOfCounts(Tail(entries))

(***************************************************************************)
(* C27.  Drill-down consistency: for every dataset, assembly filter and    *)
(* category C, total_castes returned by /caste-details for C equals the    *)
(* total_cast reported for C by /category in combined mode for the same    *)
(* filter, and the sum of the castes' counts equals C's total_count;       *)
(* likewise total_surnames of /surname-details against total_similar of    *)
(* /caste.  This holds also when some rows of C have a null or empty caste *)
(* (resp. similar-group).                                                  *)
(***************************************************************************)
C27_DrillDownAgreesWithBreadth ==
    (req.op \in DrillOps /\ res.status = 200) =>
        \A o \in CombinedOneLevelUp(req.op, req.query) :
            (o.res.status = 200 /\ "isCombined" \in DOMAIN o.res.body) =>
                \A k \in 1..Len(o.res.body.stats) :
                    LET entry == o.res.body.stats[k]
                    IN  entry[ParentOf(req.op)] = req.query[ParentKeyOf(req.op)].s =>
                            /\ res.body[TotalKeyOf(req.op)]
                                  = entry[IF req.op = "GET /caste-details"
                                          THEN "total_cast" ELSE "total_similar"]
                            /\ SumOfCounts(res.body[ListKeyOf(req.op)]) = entry.total_count

\* the same, for the datasets in which every row of the group has a child value
C27_AgreesWithoutNullChildren ==
    (/\ req.op \in DrillOps
     /\ res.status = 200
     /\ \A i \in RowsOfParent(req.op, req.query) :
            tbl_all_surname[i][ChildOf(req.op)] # Null) =>
        C27_DrillDownAgreesWithBreadth

(***************************************************************************)
(* C29.  In /caste-details, /surname-details and /by-caste/assembly the    *)
(* name matched against the dataset is the validator's normalized value:   *)
(* two requests whose category (or caste) differ only in leading or        *)
(* trailing whitespace match the same rows and return the same statistics. *)
(***************************************************************************)
Normalized(op, query) ==
    [query EXCEPT ![ParentKeyOf(op)] = JStr(trim(query[ParentKeyOf(op)].s))]

C29_PaddedNameMatchesSameRows ==
    (req.op \in DrillOps /\ res.status = 200) =>
        \A o \in DrillOutcomes(req.op, Normalized(req.op, req.query)) :
            /\ o.res.status = 200
            /\ o.res.body[TotalKeyOf(req.op)] = res.body[TotalKeyOf(req.op)]
            /\ {o.res.body[ListKeyOf(req.op)][k] : k \in 1..o.res.body[TotalKeyOf(req.op)]}
                  = {res.body[ListKeyOf(req.op)][k] : k \in 1..res.body[TotalKeyOf(req.op)]}

(***************************************************************************)
(* GET /by-caste/all and GET /by-caste/assembly                            *)
(***************************************************************************)
getAllCastesWithCount ==
    LET groups == SumCombined("surname_caste", NoFilter)
        issued == <<Query(<<"SUM", "surname_caste", "GROUP BY", "surname_caste">>, NoFilter)>>
    IN  { Outcome(Response(200,
                     [success |-> TRUE, total_castes |-> Len(casteData),
                      data |-> [k \in 1..Len(casteData) |->
                                  [caste_name |-> casteData[k].value,
                                   total_count |-> casteData[k].total_count]]]),
                  <<"getAllCastesWithCount">>, issued)
          : casteData \in OrderedBy(groups, StatOrder("total_count DESC", groups)) }

\* FROM tbl_all_surname t INNER JOIN assembly_vandan s ON t.assembly_no = s.assembly_id
\* WHERE t.surname_caste = ? : the pairs <<row of t, row of s>>
JoinedWithAssembly(caste) ==
    {p \in (DOMAIN tbl_all_surname) \X (DOMAIN assembly_vandan) :
        /\ tbl_all_surname[p[1]].assembly_no = assembly_vandan[p[2]].assembly_id
        /\ tbl_all_surname[p[1]].surname_caste = caste}

RECURSIVE SumJoined(_)
SumJoined(pairs) ==
    IF pairs = {} THEN 0
    ELSE LET p == CHOOSE q \in pairs : TRUE
         IN  tbl_all_surname[p[1]].count_num + SumJoined(pairs \ {p})

\* the groups with COUNT(*) in place of SUM(t.count_num)
SumByJoinedAssemblyCountingRows(caste) ==
    { [assembly_id |-> g[1], assembly_name |-> g[2],
       total_count |-> Cardinality({p \in JoinedWithAssembly(caste) :
                          /\ assembly_vandan[p[2]].assembly_id = g[1]
                          /\ assembly_vandan[p[2]].assembly_name = g[2]})] :
      g \in {<<assembly_vandan[p[2]].assembly_id, assembly_vandan[p[2]].assembly_name>> :
                p \in JoinedWithAssembly(caste)} }

\* SELECT s.assembly_id, s.assembly_name, t.surname_caste, SUM(t.count_num)
\* GROUP BY t.surname_caste, s.assembly_id, s.assembly_name
SumByJoinedAssembly(caste) ==
    { [assembly_id |-> g[1], assembly_name |-> g[2],
       total_count |-> SumJoined({p \in JoinedWithAssembly(caste) :
                          /\ assembly_vandan[p[2]].assembly_id = g[1]
                          /\ assembly_vandan[p[2]].assembly_name = g[2]})] :
      g \in {<<assembly_vandan[p[2]].assembly_id, assembly_vandan[p[2]].assembly_name>> :
                p \in JoinedWithAssembly(caste)} }

\* assemblyData.reduce((sum, item) => sum + Number(item.total_count), 0)
RECURSIVE reduceTotalCount(_)
reduceTotalCount(assemblyData) ==
    IF assemblyData = <<>> THEN 0
    ELSE Head(assemblyData).total_count + reduceTotalCount(Tail(assemblyData))

getCasteByAssembly(query) ==
    LET me == <<"getCasteByAssembly">>
        casteValidation == validateStringParam(query.caste, "Caste", TRUE)
        groups == SumByJoinedAssembly(query.caste.s)
        issued == <<Query(<<"SUM", "INNER JOIN assembly_vandan", "WHERE surname_caste = ?">>,
                          query.caste)>>
    IN  IF casteValidation.threw
        THEN {Outcome(Response(500, [success |-> FALSE,
                                     error |-> "Failed to fetch assembly data for caste",
                                     message |-> casteValidation.error]), me, <<>>)}
        ELSE IF ~casteValidation.isValid
        THEN {Outcome(Response(400, [success |-> FALSE, error |-> casteValidation.error]),
                      me, <<>>)}
        ELSE { Outcome(Response(200,
                          [success |-> TRUE, caste_name |-> query.caste,
                           total_assemblies |-> Len(assemblyData),
                           total_count |-> reduceTotalCount(assemblyData),
                           data |-> [k \in 1..Len(assemblyData) |->
                                       [assembly_id |-> assemblyData[k].assembly_id,
                                        assembly_name |-> assemblyData[k].assembly_name,
                                        count |-> assemblyData[k].total_count]]]),
                       me, issued)
               : assemblyData \in OrderedBy(groups, StatOrder("total_count DESC", groups)) }

\* the assembly table: complete, lacking assembly 2, or holding assembly 1 twice
AssemblyTables ==
    {SampleAssemblies, <<AssemblyRow(1, 1, "A1")>>,
     <<AssemblyRow(1, 1, "A1"), AssemblyRow(2, 2, "A2"), AssemblyRow(3, 1, "A1")>>}

InitByCaste ==
    /\ tbl_all_surname = <<>>
    /\ assembly_vandan \in AssemblyTables
    /\ election_results_col = <<>>
    /\ party_position = [AC |-> <<>>, PE |-> <<>>]
    /\ req = NoRequest
    /\ res = NoResponse
    /\ called = <<>>
    /\ queries = <<>>

GetByCasteAll ==
    Idle /\ Answer("GET /by-caste/all", [caste |-> Undefined], getAllCastesWithCount)

GetByCasteAssembly ==
    \E caste \in {Undefined, JStr(<<"x">>), JStr(<<"y">>), JStr(<<" ", "x">>), JStr(<<"'">>),
                  JArr(<< <<"x">>, <<"y">> >>)} :
        Idle /\ Answer("GET /by-caste/assembly", [caste |-> caste],
                       getCasteByAssembly([caste |-> caste]))

NextByCaste ==
    \/ PopulateStats
    \/ GetByCasteAll
    \/ GetByCasteAssembly
    \/ Complete

SpecByCaste == InitByCaste /\ [][NextByCaste]_vars

\* the total that /by-caste/all reports for the caste agrees with the breakdown
AgreesWithAllCastes ==
    \A o \in getAllCastesWithCount :
        \A k \in 1..Len(o.res.body.data) :
            o.res.body.data[k].caste_name = req.query.caste.s =>
                o.res.body.data[k].total_count = res.body.total_count

(***************************************************************************)
(* C28.  For every caste c, the total_count returned by                    *)
(* /by-caste/assembly?caste=c (the sum of its per-assembly counts) equals  *)
(* the total_count that /by-caste/all reports for c, for every dataset,    *)
(* including one where some surname rows carry an assembly_no that has no  *)
(* row, or more than one row, in the assembly table.                       *)
(***************************************************************************)
C28_BreakdownTotalAsClaimed ==
    (req.op = "GET /by-caste/assembly" /\ res.status = 200) => AgreesWithAllCastes

\* every assembly_no carried by a row of the caste has exactly one assembly row
EachAssemblyOnce(caste) ==
    \A i \in DOMAIN tbl_all_surname :
        tbl_all_surname[i].surname_caste = caste =>
            Cardinality({j \in DOMAIN assembly_vandan :
                assembly_vandan[j].assembly_id = tbl_all_surname[i].assembly_no}) = 1

(***************************************************************************)
(* C28 (amended).  For every caste c, the total_count returned by          *)
(* /by-caste/assembly?caste=c equals the total_count that /by-caste/all    *)
(* reports for c, for every dataset in which each assembly_no carried by a *)
(* surname row of c has exactly one row in the assembly table.             *)
(***************************************************************************)
C28_BreakdownTotalAmended ==
    (/\ req.op = "GET /by-caste/assembly"
     /\ res.status = 200
     /\ EachAssemblyOnce(req.query.caste.s)) => AgreesWithAllCastes

\* a caste met in two assemblies, each with its one assembly row
C28_Witness ==
    /\ req.op = "GET /by-caste/assembly"
    /\ res.status = 200
    /\ assembly_vandan = SampleAssemblies
    /\ res.body.total_assemblies = 2
    /\ res.body.total_count = 3
    /\ res.body.data[1].count = 2

(***************************************************************************)
(* C23.  Every piece of request-derived text placed into the text of a raw *)
(* SQL statement is closed-set: a table name is one of the two             *)
(* party-position tables, a column name is one of the six mapped year      *)
(* columns, and an assembly id is an integer in [1, 999999]; for no        *)
(* request does any other string reach the SQL text.                       *)
(***************************************************************************)
InterpolatedClosedSet(q) ==
    IF "party" \in DOMAIN q
    THEN /\ q.sql[2] \in {"tbl_result_party_position", "tbl_result_party_position_pe"}
         /\ \E c \in DOMAIN YearColumns : q.sql[3] = YearColumns[c]
    ELSE ("kind" \in DOMAIN q.filter) =>
            /\ q.filter.kind = "eq" => q.filter.id \in MinAssemblyId..MaxAssemblyId
            /\ q.filter.kind = "in" =>
                  \A i \in 1..Len(q.filter.ids) : q.filter.ids[i] \in MinAssemblyId..MaxAssemblyId

C23_SqlTextIsClosedSet ==
    \A k \in 1..Len(queries) : InterpolatedClosedSet(queries[k])

\* the same, for the requests whose year is not a name objects inherit
C23_ClosedSetForOwnYears ==
    (req.op = "GET /details" => String(req.query.year) \notin ObjectPrototypeKeys) =>
        C23_SqlTextIsClosedSet

(***************************************************************************)
(* The handlers step by step: each await of a data-store call is a step at *)
(* which the call returns or throws, and the dataset may be populated      *)
(* between two calls of one request.                                       *)
(***************************************************************************)
MaxStepRows == 2      \* most rows of the surname table while requests are served in steps

StepRows ==
    {SurnameRow(<<"A">>, caste, <<"s">>, a, n) :
        caste \in {<<"x">>, <<"y">>}, a \in AssemblyNos, n \in CountNums}

StepRequests ==
    {[op |-> "POST /search", query |-> b] :
        b \in [assembly_id : {Undefined, JStr(<<"1">>), JStr(<<"a">>)},
               page : {Undefined}, limit : {Undefined, JStr(<<"1">>)}]}
    \cup {[op |-> "GET /category", query |-> q] :
            q \in [assembly_id : {Undefined, JStr(<<"1">>), JStr(<<"1", ",", "2">>)},
                   view_mode : {Undefined, JStr(Combined), JStr(<<"x">>)}]}
    \cup {[op |-> "GET /details",
           query |-> DetailsQuery(JStr(<<"1">>), JStr(<<"b", "j", "p">>), y, JStr(<<"A", "C">>))] :
            y \in {Undefined, JStr(Year2008), JStr(<<"2", "0", "2", "5">>),
                   JStr(<<"t", "o", "S", "t", "r", "i", "n", "g">>)}}
    \cup {[op |-> "GET /assemblies", query |-> [assembly_id |-> Undefined]]}

\* the assembly names of the sample, in ascending order
AssemblyNamesAsc == <<"A1", "A2">>

\* orderBy: { assembly_name: "asc" }
AssemblyNameAsc ==
    [i, j \in DOMAIN assembly_vandan |->
        \E a, b \in DOMAIN AssemblyNamesAsc :
            /\ a <= b
            /\ AssemblyNamesAsc[a] = assembly_vandan[i].assembly_name
            /\ AssemblyNamesAsc[b] = assembly_vandan[j].assembly_name]

\* the course of the handler that does not depend on the dataset: the controllers it
\* runs through, the store calls it awaits in order, and the answer of a failed
\* validation, sent before the first call
CourseOf(op, query) ==
    IF op = "GET /assemblies"
    THEN [called |-> <<"getAssemblies">>,
          queries |-> <<Query(<<"assembly_vandan.findMany">>, NoFilter)>>,
          answer |-> NoResponse]
    ELSE
    LET o == CHOOSE x \in (CASE op = "POST /search" -> getSurnames(query)
                             [] op = "GET /category" -> getAllCategoryStatus(query)
                             [] op = "GET /details" -> getPositionDetailsByParty(query)) : TRUE
    IN  [called |-> o.called, queries |-> o.queries,
         answer |-> IF o.queries = <<>> THEN o.res ELSE NoResponse]

\* a statement the store cannot run: a column that is no column
Unrunnable(op, query) ==
    op = "GET /details" /\ PropertyOf(yearColumnMap, query.year).kind = "function"

\* what the k-th store call of the handler returns on the dataset as it is now
StoreResult(op, query, k) ==
    LET filter == buildAssemblyFilter(query.assembly_id)
        dim == "surname_category"
        child == "surname_caste"
    IN  CASE op = "POST /search" /\ k = 1 ->
                {Cardinality({i \in DOMAIN tbl_all_surname :
                    MatchesWhere(tbl_all_surname[i], searchWhereClause(query.assembly_id))})}
          [] op = "POST /search" /\ k = 2 ->
                LET where == searchWhereClause(query.assembly_id)
                    pagination == validatePagination(OrDefaultUndefined(query.page, DefaultPage),
                                      OrDefaultUndefined(query.limit, DefaultLimit)).value
                    matching == {i \in DOMAIN tbl_all_surname :
                                    MatchesWhere(tbl_all_surname[i], where)}
                IN  {[j \in 1..Len(Page(found, (pagination.page - 1) * pagination.limit,
                                         pagination.limit)) |->
                        Selected(Page(found, (pagination.page - 1) * pagination.limit,
                                      pagination.limit)[j])]
                     : found \in OrderedBy(matching, CountNumDesc)}
          [] op = "GET /details" ->
                {o.res : o \in getPositionDetailsByParty(query)}
          [] op = "GET /assemblies" ->
                {[j \in 1..Len(found) |-> assembly_vandan[found[j]]] :
                    found \in OrderedBy(DOMAIN assembly_vandan, AssemblyNameAsc)}
          [] op = "GET /category" /\ k = 1 /\ Len(req.course.queries) = 3 ->
                OrderedBy(SumByAssembly(dim, filter),
                          StatOrder("assembly_no ASC", SumByAssembly(dim, filter)))
          [] op = "GET /category" /\ k = 2 /\ Len(req.course.queries) = 3 ->
                {[g \in {<<s.assembly_no, s.value>> : s \in SumByAssembly(dim, filter)} |->
                    DistinctByAssembly(dim, child, filter, g[1], g[2])]}
          [] op = "GET /category" /\ k = 3 ->
                {[n \in {assembly_vandan[i].assembly_id : i \in DOMAIN assembly_vandan} |->
                    getAssemblyDetails({n}, n)]}
          [] op = "GET /category" /\ k = 1 ->
                OrderedBy(SumCombined(dim, filter), StatOrder("", SumCombined(dim, filter)))
          [] op = "GET /category" /\ k = 2 ->
                {[v \in {s.value : s \in SumCombined(dim, filter)} |->
                    DistinctCombined(dim, child, filter, v)]}

\* the 200 of getCategoryStatsSeparate from the results of its three calls
separateFromResults(query, stats, casteCountMap, assemblyMap) ==
    LET order == Ascending({stats[i].assembly_no : i \in 1..Len(stats)})
        ofAssembly(n) ==
            LET idx == Ascending({i \in 1..Len(stats) : stats[i].assembly_no = n})
            IN  [k \in 1..Len(idx) |->
                    StatEntry("surname_category", "total_cast", stats[idx[k]].value,
                              stats[idx[k]].total_count,
                              IF <<n, stats[idx[k]].value>> \in DOMAIN casteCountMap
                              THEN casteCountMap[<<n, stats[idx[k]].value>>] ELSE 0)]
        result == [k \in 1..Len(order) |->
                      [assembly |-> IF order[k] \in DOMAIN assemblyMap
                                    THEN assemblyMap[order[k]] ELSE Undefined,
                       stats |-> ofAssembly(order[k])]]
    IN  IF Truthy(query.assembly_id) /\ ~IsAll(query.assembly_id)
           /\ ~jsIncludesComma(query.assembly_id)
        THEN Response(200, IF result # <<>> THEN result[1]
                           ELSE [assembly |-> JsNull, stats |-> <<>>])
        ELSE Response(200, [items |-> result])

\* the 200 of getCategoryStatsCombined from the results of its two calls
combinedFromResults(stats, CastCountInCategory) ==
    Response(200,
        [assembly |-> combinedAssembly,
         stats |-> sortByCountDesc(
            [k \in 1..Len(stats) |->
                StatEntry("surname_category", "total_cast", stats[k].value,
                          stats[k].total_count,
                          IF stats[k].value \in DOMAIN CastCountInCategory
                          THEN CastCountInCategory[stats[k].value] ELSE 0)]),
         isCombined |-> TRUE])

\* the response the handler sends once its last call has returned
ResponseFrom(op, query, results) ==
    CASE op = "POST /search" ->
            LET limitNum == validatePagination(OrDefaultUndefined(query.page, DefaultPage),
                                OrDefaultUndefined(query.limit, DefaultLimit)).value.limit
                pageNum == validatePagination(OrDefaultUndefined(query.page, DefaultPage),
                                OrDefaultUndefined(query.limit, DefaultLimit)).value.page
            IN  Response(200, [success |-> TRUE, count |-> results[1],
                               totalPages |-> Ceil(results[1], limitNum),
                               currentPage |-> pageNum, data |-> results[2]])
      [] op = "GET /details" -> results[1]
      [] op = "GET /assemblies" -> Response(200, [success |-> TRUE, data |-> results[1]])
      [] op = "GET /category" /\ Len(results) = 3 ->
            separateFromResults(query, results[1], results[2], results[3])
      [] op = "GET /category" -> combinedFromResults(results[1], results[2])

\* error.message of an exception the store raised
StoreFault == "Can't reach database server"

\* catch blocks that all put error.message in the body
CatchResponseEchoing(op, controller) ==
    CASE op = "POST /search" -> Response(500, [success |-> FALSE, message |-> StoreFault])
      [] op = "GET /details" -> Response(500, [success |-> FALSE, message |-> StoreFault])
      [] op = "GET /assemblies" -> Response(500, [success |-> FALSE, message |-> StoreFault])
      [] controller = "getCategoryStatsSeparate" ->
            ServerError("Failed to fetch statistics", StoreFault)
      [] OTHER -> ServerError("Failed to fetch combined statistics", StoreFault)

\* the catch block of the controller that awaited the failing call
CatchResponse(op, controller) ==
    CASE op = "POST /search" -> Response(500, InternalServerError)
      [] op = "GET /details" -> Response(500, InternalServerError)
      [] op = "GET /assemblies" -> Response(500, InternalServerError)
      [] controller = "getCategoryStatsSeparate" ->
            ServerError("Failed to fetch statistics", StoreFault)
      [] OTHER -> ServerError("Failed to fetch combined statistics", StoreFault)

\* res.status(..).json(..)
Send(response) ==
    /\ res' = response
    /\ called' = Append(called, "res.json")

Accept ==
    \E r \in StepRequests :
        /\ Idle
        /\ r.op = "GET /details" => OnlyPositions
        /\ r.op # "GET /details" => OnlySurnames
        /\ req' = [op |-> r.op, query |-> r.query, pc |-> "handler",
                   course |-> CourseOf(r.op, r.query), results |-> <<>>,
                   at |-> Len(tbl_all_surname)]
        /\ UNCHANGED <<tables, res, called, queries>>

\* the validations of the handler: a failed one is answered at once
Rejects ==
    /\ ~Idle
    /\ req.pc = "handler"
    /\ req.course.queries = <<>>
    /\ res' = req.course.answer
    /\ called' = Append(req.course.called, "res.json")
    /\ req' = [req EXCEPT !.pc = "returned"]
    /\ UNCHANGED <<tables, queries>>

Validates ==
    /\ ~Idle
    /\ req.pc = "handler"
    /\ req.course.queries # <<>>
    /\ called' = req.course.called
    /\ req' = [req EXCEPT !.pc = "store"]
    /\ UNCHANGED <<tables, res, queries>>

\* the awaited call returns and the handler runs on to its next await, or, after its
\* last call, to the res.json that ends it
StoreReturns ==
    /\ ~Idle
    /\ req.pc = "store"
    /\ ~Unrunnable(req.op, req.query)
    /\ \E r \in StoreResult(req.op, req.query, Len(queries) + 1) :
          IF Len(queries) + 1 = Len(req.course.queries)
          THEN /\ req' = [req EXCEPT !.results = Append(@, r), !.pc = "returned"]
               /\ Send(ResponseFrom(req.op, req.query, Append(req.results, r)))
          ELSE /\ req' = [req EXCEPT !.results = Append(@, r)]
               /\ UNCHANGED <<res, called>>
    /\ queries' = Append(queries, req.course.queries[Len(queries) + 1])
    /\ UNCHANGED tables

\* the awaited call rejects: control passes to the catch block
StoreThrows ==
    /\ ~Idle
    /\ req.pc = "store"
    /\ queries' = Append(queries, req.course.queries[Len(queries) + 1])
    /\ req' = [req EXCEPT !.pc = "catch"]
    /\ UNCHANGED <<tables, res, called>>

\* a catch block that logs the error and sends nothing
CatchLogsOnly ==
    /\ ~Idle
    /\ req.pc = "catch"
    /\ req' = [req EXCEPT !.pc = "returned"]
    /\ UNCHANGED <<tables, res, called, queries>>

Catch ==
    /\ ~Idle
    /\ req.pc = "catch"
    /\ Send(CatchResponse(req.op, called[Len(called)]))
    /\ req' = [req EXCEPT !.pc = "returned"]
    /\ UNCHANGED <<tables, queries>>

Finish == ~Idle /\ req.pc = "returned" /\ Complete

PopulateIdle ==
    \/ \E r \in StepRows :
          /\ Idle
          /\ OnlySurnames
          /\ CanAppend(tbl_all_surname, r, MaxStepRows)
          /\ tbl_all_surname' = Append(tbl_all_surname, r)
          /\ UNCHANGED <<assembly_vandan, election_results_col, party_position,
                         req, res, called, queries>>
    \/ (OnlyPositions /\ PopulateDetails)

\* a row is added while a request waits for the store
PopulateWhileServing ==
    \E r \in StepRows :
        /\ ~Idle
        /\ req.pc = "store"
        /\ CanAppend(tbl_all_surname, r, MaxStepRows)
        /\ tbl_all_surname' = Append(tbl_all_surname, r)
        /\ UNCHANGED <<assembly_vandan, election_results_col, party_position,
                       req, res, called, queries>>

\* the synchronous stretches of a handler, which node runs once they are due
HandlerStep == Rejects \/ Validates \/ Catch

NextSteps ==
    \/ PopulateIdle
    \/ Accept
    \/ Rejects
    \/ Validates
    \/ StoreReturns
    \/ StoreThrows
    \/ Catch
    \/ Finish

\* node runs a handler to its next await, and no store call stays pending for ever:
\* StoreThrows is enabled exactly while a call is pending, so its weak fairness leaves
\* every behaviour in which each call returns or throws
SpecSteps == InitStats /\ [][NextSteps]_vars /\ WF_vars(HandlerStep) /\ WF_vars(StoreThrows)

NextRace == NextSteps \/ PopulateWhileServing

SpecRace == InitStats /\ [][NextRace]_vars

(***************************************************************************)
(* C24.  When a data-store call of a request throws, the handler answers   *)
(* the request with status 500 and a failure body; the handlers of         *)
(* /assemblies, /search and the election-results endpoint send exactly the *)
(* fixed body {success: false, message: "Internal server error"}, which    *)
(* carries nothing of the exception, and the statistics controllers send   *)
(* an error title with the exception's message.                            *)
(***************************************************************************)
\* the request has returned and its last store call did not return a result
StoreThrew == ~Idle /\ req.pc = "returned" /\ Len(req.results) < Len(queries)

FixedTextOps == {"GET /assemblies", "POST /search", "GET /details"}

RECURSIVE TimesCalled(_, _)
TimesCalled(name, calls) ==
    IF calls = <<>> THEN 0
    ELSE (IF Head(calls) = name THEN 1 ELSE 0) + TimesCalled(name, Tail(calls))

Sent == TimesCalled("res.json", called)

Answered == ~Idle /\ req.pc = "returned" /\ Sent = 1 /\ res.status # 0

C25_ExactlyOneResponse ==
    /\ [](Sent <= 1)
    /\ []((~Idle /\ req.pc = "returned") => Answered)
    /\ (~Idle ~> Answered)

\* the separate controller answered from its catch block, once
C25_Witness ==
    /\ Answered
    /\ StoreThrew
    /\ req.op = "GET /category"
    /\ called = <<"getAllCategoryStatus", "getCategoryStatsSeparate", "res.json">>

(***************************************************************************)
(* C30.  A response is computed from one snapshot of the dataset even when *)
(* rows are added while the request runs: there is one set of rows, the    *)
(* table as it stood at some moment between the request's arrival and its  *)
(* answer, of which every entry of a separate-mode response gives the sum  *)
(* and the number of distinct castes of its group, and of which a /search  *)
(* response gives the count of matching rows and a page cut from them.     *)
(***************************************************************************)
\* the rows of assembly a and category v among the first n rows of the table
RowsIn(n, a, v) ==
    {i \in 1..n : /\ tbl_all_surname[i].assembly_no = a
                  /\ tbl_all_surname[i].surname_category = v}

EntryDescribes(n, a, stat) ==
    /\ stat.total_count = SumCountNum(RowsIn(n, a, stat.surname_category))
    /\ stat.total_cast =
          Cardinality({tbl_all_surname[i].surname_caste : i \in RowsIn(n, a, stat.surname_category)})

SeparateEntries(body) == IF "items" \in DOMAIN body THEN body.items ELSE <<body>>

SeparateFromSnapshot(n) ==
    \A k \in DOMAIN SeparateEntries(res.body) :
        \A j \in DOMAIN SeparateEntries(res.body)[k].stats :
            EntryDescribes(n, SeparateEntries(res.body)[k].assembly.assembly_id,
                           SeparateEntries(res.body)[k].stats[j])

SearchFromSnapshot(n) ==
    LET matching == {i \in 1..n : MatchesWhere(tbl_all_surname[i],
                                               searchWhereClause(req.query.assembly_id))}
        limitNum == validatePagination(OrDefaultUndefined(req.query.page, DefaultPage),
                        OrDefaultUndefined(req.query.limit, DefaultLimit)).value.limit
    IN  /\ res.body.count = Cardinality(matching)
        /\ Len(res.body.data) = (IF Cardinality(matching) < limitNum
                                 THEN Cardinality(matching) ELSE limitNum)
        /\ \A j \in DOMAIN res.body.data : res.body.data[j].id \in matching

AnsweredSearch == ~Idle /\ req.pc = "returned" /\ res.status = 200 /\ req.op = "POST /search"

AnsweredSeparate ==
    /\ ~Idle
    /\ req.pc = "returned"
    /\ res.status = 200
    /\ req.op = "GET /category"
    /\ called[2] = "getCategoryStatsSeparate"

C30_OneSnapshot ==
    /\ AnsweredSearch =>
          \E n \in req.at..Len(tbl_all_surname) : SearchFromSnapshot(n)
    /\ AnsweredSeparate =>
          \E n \in req.at..Len(tbl_all_surname) : SeparateFromSnapshot(n)

\* the same when no row was added between the arrival of the request and its answer
C30_OneSnapshotOfStillDataset ==
    Idle \/ Len(tbl_all_surname) = req.at => C30_OneSnapshot

====
